---- MODULE Spec2Model ----
(***************************************************************************)
(* Offline-first synchronisation engine of Arkive.                         *)
(*                                                                         *)
(*   DatabaseService      src/unnamed/part_002, lines 4-639                *)
(*   FirebaseSyncService  two revisions are in the repository:             *)
(*                          src/src/services/firebaseSync.ts               *)
(*                          src/unnamed/part_002, lines 640-992            *)
(*                        The second adds validateAccess, retryAttempts /  *)
(*                        maxRetries, the 30 s timer, the isOnline check   *)
(*                        of syncToFirebase and the deviceId stamp.        *)
(*                                                                         *)
(* The variable `build` says which revision of the service is bundled.     *)
(*                                                                         *)
(* JavaScript runs one task at a time.  Every action below is one task     *)
(* together with the microtasks it schedules: a handler runs from its      *)
(* entry up to the point where all of its continuations wait for an        *)
(* IndexedDB request or for a Firebase call.                               *)
(***************************************************************************)
EXTENDS Integers, Sequences, FiniteSets, TLC

\* ------------------------------------------------------------------ bounds
\* DatabaseService calls in one run
MaxCalls == 2
\* remote calls are rejected only while retryAttempts is below this
MaxAttempts == 4
\* performFullSync calls in progress at the same time
MaxFullSyncs == 1
\* writes of the other device
MaxPeerWrites == 1
\* getSyncStatus calls
MaxStatusCalls == 1
\* setupRealtimeListener calls
MaxSetups == 2
\* AuthService.init calls
MaxInits == 2

\* ------------------------------------------------------- program constants
maxRetries == 3
\* DatabaseService.dbVersion
dbVersion == 9

\* the two revisions of FirebaseSyncService
Rev1 == "services/firebaseSync.ts"
Rev2 == "part_002"

ThisDevice == "dev-A"
OtherDevice == "dev-B"

\* localStorage.getItem(key) === null
NoItem == "(no item)"
\* a DatabaseService call that has created no SyncOperation
NoOp == [id |-> 0]
\* snapshot.val() === null: nothing stored at the path
NoNode == [exists |-> FALSE]
\* localStorage without the key 'arkive-sync-queue'
NoQueue == [has |-> FALSE, json |-> <<>>]
\* syncFromFirebase has not been called
NoResync == [phase |-> "idle"]
\* syncStoreToFirebase has not been called
NoStoreSync == [phase |-> "idle"]
\* this.listeners has no entry for the store
NoListener == 0
\* the callback of a listener has not been invoked
NoSnapshot == [invoked |-> FALSE, data |-> {}]
\* getStoreFromFirebase has not been called
NoFetch == [phase |-> "idle"]
\* no record has been taken through the remote store and back
NoTrip == [phase |-> "idle"]
\* exportData has not been called
NoExport == [phase |-> "idle"]
\* getSyncStatus has not been called
NoStatus == [phase |-> "idle", n |-> 0]
\* AuthService.init has not been called
NoAuth == [phase |-> "idle", n |-> 0, connected |-> FALSE, found |-> {},
           todo |-> <<>>, call |-> 0]
\* let lastSync: Date | null = null
Null == <<"null">>
\* a call that has thrown nothing so far
NoError == "(no error)"

Stores == {"clients", "documents"}
\* with the collection of createNotification and markNotificationAsRead, and
\* that of createEmployee and that of createUser
LocalStores == Stores \cup {"notifications", "employees", "users"}
Cnics == {"c1", "c2"}

\* crypto.randomUUID() for record ids: the values a collection draws, in order
UuidsOf(store) ==
    CASE store = "clients" -> <<"k1", "k2">>
      [] store = "documents" -> <<"d1">>
      [] store = "notifications" -> <<"n1">>
      [] store = "employees" -> <<"e1">>
      [] store = "users" -> <<"u1", "u2", "u3">>

RecordIds(store) == {UuidsOf(store)[i] : i \in DOMAIN UuidsOf(store)}

Paths == {<<st, id>> : st \in {"clients"}, id \in RecordIds("clients")}
           \cup {<<st, id>> : st \in {"documents"}, id \in RecordIds("documents")}
           \cup {<<st, id>> : st \in {"employees"}, id \in RecordIds("employees")}
           \cup {<<st, id>> : st \in {"users"}, id \in RecordIds("users")}

VARIABLES
    build,           \* the revision of FirebaseSyncService in the bundle
    isOnline,        \* FirebaseSyncService.isOnline
    deviceId,        \* FirebaseSyncService.deviceId
    syncQueue,       \* FirebaseSyncService.syncQueue
    retryAttempts,   \* FirebaseSyncService.retryAttempts (Rev2)
    passes,          \* running processSyncQueue calls, each awaiting a remote call,
                     \* in the order in which their remote calls were issued
    lsQueue,         \* localStorage['arkive-sync-queue']
    lsDeviceId,      \* localStorage['arkive-device-id']
    localDb,         \* IndexedDB object stores: store name -> set of records
    idbPending,      \* IndexedDB requests issued and not yet completed, in order
    calls,           \* DatabaseService calls made so far and the state of their promise
    remote,          \* Realtime Database: path -> node
    remoteMeta,      \* Realtime Database: the node sync_metadata/{deviceId}
    metaCalls,       \* set(syncRef, ...) calls of performFullSync in flight,
                     \* each with the ids queued when performFullSync was called
    confirmed,       \* ids of the SyncOperations whose remote call resolved
    resync,          \* the syncFromFirebase call of the Vault page, if one was made
    peer,            \* the records another device has written to the remote store
    storeSync,       \* the syncStoreToFirebase call, if one was made
    status,          \* the latest getSyncStatus call and what it returned
    listeners,       \* FirebaseSyncService.listeners: store name -> what onValue returned
    subs,            \* the setupRealtimeListener calls made so far, in order
    fetch,           \* the getStoreFromFirebase call of a page, if one was made
    exported,        \* the exportData call of the settings page, if one was made
    auth,            \* the latest AuthService.init call: where it stands, the users
                     \* it found remotely and those it has still to create
    trip             \* a record with date fields on its way to the remote store and back

vars == <<build, isOnline, deviceId, syncQueue, retryAttempts, passes, lsQueue,
          lsDeviceId, localDb, idbPending, calls, remote, remoteMeta, metaCalls,
          confirmed, resync, peer, storeSync, status, listeners, subs, fetch,
          exported, auth, trip>>

\* ------------------------------------------------------------ dates, JSON

\* new Date() at the time the n-th SyncOperation is made
DateOf(n) == <<"Date", n>>

\* Date.prototype.toISOString
toISOString(d) == <<"iso", d[2]>>

\* new Date(x) for x a Date or an ISO string
NewDate(x) == <<"Date", x[2]>>

\* JSON.stringify of a scalar: a Date is written as its ISO string
JsonValue(x) == IF x[1] = "Date" THEN toISOString(x) ELSE x

\* JSON.parse(JSON.stringify(queue)): timestamps come back as strings
JsonRoundTrip(queue) ==
    [i \in 1..Len(queue) |-> [queue[i] EXCEPT !.timestamp = JsonValue(@)]]

\* new Date(undefined)
InvalidDate == <<"Invalid Date", 0>>
\* the value of a property that is set to undefined
Undefined == <<"undefined">>

\* the date fields the .map of getStoreFromFirebase converts if they are set
ConvertedIfSet == {"updatedAt", "lastModified", "date", "timestamp", "uploadedAt",
                   "lastAccessed", "lastLogin"}

\* the .map of getStoreFromFirebase, both revisions: createdAt always goes
\* through new Date(), the fields of ConvertedIfSet do if they are truthy and
\* are undefined otherwise, every other field is copied
MapItem(item) ==
    [f \in DOMAIN item \cup {"createdAt"} \cup ConvertedIfSet |->
        IF f = "createdAt"
        THEN IF f \in DOMAIN item THEN NewDate(item[f]) ELSE InvalidDate
        ELSE IF f \in ConvertedIfSet
             THEN IF f \in DOMAIN item THEN NewDate(item[f]) ELSE Undefined
             ELSE item[f]]

\* what the database keeps of the record handed to set(): a Date that is
\* written as JSON writes it becomes its ISO string; a Date taken as an
\* object has no properties of its own, and a property without value is not
\* stored
Stored(data, asJson) ==
    LET kept == {f \in DOMAIN data : asJson \/ data[f][1] # "Date"}
    IN  [f \in kept |-> JsonValue(data[f])]

\* ------------------------------------------------ the state of the page

\* the fields the handlers below read and write, as one record
Page ==
    [build |-> build, isOnline |-> isOnline, deviceId |-> deviceId,
     syncQueue |-> syncQueue, retryAttempts |-> retryAttempts, passes |-> passes,
     lsQueue |-> lsQueue, lsDeviceId |-> lsDeviceId, idbPending |-> idbPending,
     calls |-> calls, metaCalls |-> metaCalls, resync |-> resync,
     storeSync |-> storeSync, status |-> status, listeners |-> listeners,
     subs |-> subs, fetch |-> fetch, exported |-> exported,
     auth |-> auth, trip |-> trip]

Commit(s) ==
    /\ build' = s.build
    /\ isOnline' = s.isOnline
    /\ deviceId' = s.deviceId
    /\ syncQueue' = s.syncQueue
    /\ retryAttempts' = s.retryAttempts
    /\ passes' = s.passes
    /\ lsQueue' = s.lsQueue
    /\ lsDeviceId' = s.lsDeviceId
    /\ idbPending' = s.idbPending
    /\ calls' = s.calls
    /\ metaCalls' = s.metaCalls
    /\ resync' = s.resync
    /\ storeSync' = s.storeSync
    /\ status' = s.status
    /\ listeners' = s.listeners
    /\ subs' = s.subs
    /\ fetch' = s.fetch
    /\ trip' = s.trip
    /\ exported' = s.exported
    /\ auth' = s.auth

\* what runs when a promise of the sync service settles
NoCont == [kind |-> "none", call |-> 0, active |-> FALSE]

\* the SyncOperations created so far
OpsOf(cs) == {cs[c].op : c \in {d \in DOMAIN cs : cs[d].op # NoOp}}

\* ------------------------------------------------- FirebaseSyncService

\* validateAccess of Rev2; Rev1 has no such check
validateAccess(s) == s.build = Rev1 \/ s.lsDeviceId # NoItem

saveSyncQueue(s) ==
    [s EXCEPT !.lsQueue = [has |-> TRUE, json |-> JsonRoundTrip(s.syncQueue)]]

loadSyncQueue(s) ==
    IF s.lsQueue.has THEN [s EXCEPT !.syncQueue = s.lsQueue.json] ELSE s

\* a getDeviceId that does not look into localStorage
getDeviceIdAnew(s) ==
    LET uuid == IF s.lsDeviceId = ThisDevice THEN "dev-A2" ELSE ThisDevice
    IN  [s EXCEPT !.lsDeviceId = uuid, !.deviceId = uuid]

getDeviceId(s) ==
    IF s.lsDeviceId = NoItem
    THEN [s EXCEPT !.lsDeviceId = ThisDevice, !.deviceId = ThisDevice]
    ELSE [s EXCEPT !.deviceId = s.lsDeviceId]

\* the payload of set(syncRef, ...) in performFullSync (Rev2 adds userAgent and
\* a numeric timestamp, which nothing reads back)
SyncMetadata(s) ==
    [lastSync |-> toISOString(DateOf(Cardinality(OpsOf(s.calls)))),
     deviceId |-> s.deviceId]

\* the promise returned to a caller settles: the caller's continuation runs.
\* The helpers of Clients.tsx return the promise itself ("resolve").
\* logDocumentAccess issues its put in .finally(); the IndexedDB transaction is
\* still active only if no task boundary was crossed since getReq.onsuccess,
\* otherwise store.put throws inside the callback and the call never settles.
Settle(s, k) ==
    IF k.kind = "put"
    THEN IF k.active
         THEN [s EXCEPT !.idbPending =
                  Append(@, [req |-> "put", store |-> "documents",
                             rec |-> s.calls[k.call].op.data, call |-> k.call])]
         ELSE [s EXCEPT !.calls[k.call].state = "hung"]
    ELSE IF k.kind = "fullsync"
         THEN [s EXCEPT !.metaCalls =
                  @ \cup {[meta |-> SyncMetadata(s), queued |-> k.queued]}]
         ELSE IF k.kind = "resolve"
              THEN [s EXCEPT !.calls[k.call].state = "ok"]
              ELSE s

\* syncToFirebase up to its remote call: TRUE when set() / remove() is issued,
\* FALSE when it throws before.  Rev2 throws 'Unauthorized access attempt' and
\* 'Cannot sync while offline'; Rev1 always issues the call.
syncToFirebaseCalls(s) ==
    IF s.build = Rev2 THEN validateAccess(s) /\ s.isOnline ELSE TRUE

\* a catch block that logs the failure and does not push the operation back
catchAndDrop(s, operation) ==
    [s EXCEPT !.retryAttempts = IF s.build = Rev2 THEN @ + 1 ELSE @]

\* the catch block of processSyncQueue: Rev2 counts the failure
catchSyncError(s, operation) ==
    [s EXCEPT !.retryAttempts = IF s.build = Rev2 THEN @ + 1 ELSE @,
              !.syncQueue = Append(@, operation)]

\* the for-loop of processSyncQueue from `queue` on, up to the next remote
\* call; after the last operation saveSyncQueue runs and the promise settles
RECURSIVE syncLoop(_, _, _)
syncLoop(s, queue, k) ==
    IF queue = <<>>
    THEN Settle(saveSyncQueue(s), k)
    ELSE IF syncToFirebaseCalls(s)
         THEN [s EXCEPT !.passes = Append(@, [queue |-> queue,
                                              k |-> [k EXCEPT !.active = FALSE]])]
         ELSE syncLoop(catchSyncError(s, Head(queue)), Tail(queue), k)

\* a processSyncQueue that returns early only for the retry limit
SuppressedByRetriesOnly(s) ==
    s.build = Rev2 /\ s.retryAttempts >= maxRetries

\* the early return of processSyncQueue
DrainSuppressed(s) ==
    \/ ~s.isOnline
    \/ Len(s.syncQueue) = 0
    \/ (s.build = Rev2 /\ s.retryAttempts >= maxRetries)

processSyncQueue(s, k) ==
    IF DrainSuppressed(s)
    THEN Settle(s, k)
    ELSE syncLoop([s EXCEPT !.syncQueue = <<>>], s.syncQueue, k)

\* operation = [type, store, data]; c is the DatabaseService call that makes it
addToSyncQueue(s, operation, c, k) ==
    IF ~validateAccess(s)
    THEN Settle(s, k)
    ELSE LET n == Cardinality(OpsOf(s.calls)) + 1
             syncOp == [id |-> n, type |-> operation.type, store |-> operation.store,
                        data |-> operation.data, timestamp |-> DateOf(n),
                        deviceId |-> s.deviceId]
             s1 == saveSyncQueue([s EXCEPT !.syncQueue = Append(@, syncOp),
                                           !.calls[c].op = syncOp])
         IN  IF s1.isOnline THEN processSyncQueue(s1, k) ELSE Settle(s1, k)

\* syncToFirebase writing the record without the device that synced it
SyncStampWithoutDevice(operation, s) ==
    [lastModified |-> toISOString(NewDate(operation.timestamp))]

\* the stamp syncToFirebase adds to the record: Rev2 also writes deviceId
SyncStamp(operation, s) ==
    IF s.build = Rev2
    THEN [lastModified |-> toISOString(NewDate(operation.timestamp)),
          syncedBy |-> s.deviceId, deviceId |-> s.deviceId]
    ELSE [lastModified |-> toISOString(NewDate(operation.timestamp)),
          syncedBy |-> s.deviceId]

\* update(ref, value) of firebase/database: the fields of value are written
\* into the node, the other fields of the node stay
update(node, value) ==
    IF node = NoNode
    THEN value
    ELSE [f \in DOMAIN value \cup DOMAIN node |->
             IF f \in DOMAIN value THEN value[f] ELSE node[f]]

\* set(ref, value) of firebase/database, the call syncToFirebase makes: the
\* node becomes value, whatever it was
set(node, value) == value

\* the value set() writes, or nothing left at the path by remove()
RemoteNode(operation, s) ==
    IF operation.type = "delete"
    THEN NoNode
    ELSE SyncStamp(operation, s) @@ operation.data


\* ------------------------------------------------------ DatabaseService

\* ids that some call has named so far in a collection
UsedIds(store) ==
    {calls[c].id : c \in {d \in DOMAIN calls : calls[d].store = store}}

\* the records a caller can pass for a collection
Records(store) ==
    CASE store = "clients" ->
             {[id |-> i, cnic |-> n] : i \in RecordIds(store), n \in Cnics}
      [] store = "documents" ->
             {[id |-> i, accessLog |-> 1] : i \in RecordIds(store)}
      [] store = "notifications" ->
             {[id |-> i, read |-> FALSE] : i \in RecordIds(store)}
      [] store = "employees" ->
             {[id |-> i, employeeId |-> "E1"] : i \in RecordIds(store)}

\* a call as its caller sees it: `online` is isOnline when it is made, `state`
\* the state of the promise it returned, `via` the module whose function it is
NewCall(kind, store, id) ==
    [via |-> "DatabaseService", kind |-> kind, store |-> store, id |-> id,
     online |-> isOnline, state |-> "pending", op |-> NoOp]

\* createClient, createDocument: addToSyncQueue is called before store.add
Create(store, rec) ==
    /\ Len(calls) < MaxCalls
    /\ Cardinality(UsedIds(store)) < Len(UuidsOf(store))
    /\ rec.id = UuidsOf(store)[Cardinality(UsedIds(store)) + 1]
    /\ LET c == Len(calls) + 1
           s0 == [Page EXCEPT !.calls = Append(@, NewCall("create", store, rec.id))]
           s1 == addToSyncQueue(s0, [type |-> "create", store |-> store, data |-> rec],
                                c, NoCont)
       IN  Commit([s1 EXCEPT !.idbPending =
                      Append(@, [req |-> "add", store |-> store, rec |-> rec, call |-> c])])
    /\ UNCHANGED <<localDb, remote, remoteMeta, confirmed, peer>>

\* updateClient(rec): addToSyncQueue is called before store.put, whatever the
\* id of rec is
updateClient(store, rec) ==
    /\ Len(calls) < MaxCalls
    /\ LET c == Len(calls) + 1
           s0 == [Page EXCEPT !.calls = Append(@, NewCall("update", store, rec.id))]
           s1 == addToSyncQueue(s0, [type |-> "update", store |-> store, data |-> rec],
                                c, NoCont)
       IN  Commit([s1 EXCEPT !.idbPending =
                      Append(@, [req |-> "put", store |-> store, rec |-> rec, call |-> c])])
    /\ UNCHANGED <<localDb, remote, remoteMeta, confirmed, peer>>

\* updateClient for a record whose id a call has named before
Update(store, rec) ==
    /\ rec.id \in UsedIds(store)
    /\ updateClient(store, rec)

\* a deleteClient that looks the id up first and rejects when the collection
\* does not hold it
deleteClientIfPresent(store, id) ==
    /\ Len(calls) < MaxCalls
    /\ LET c == Len(calls) + 1
           s0 == [Page EXCEPT !.calls = Append(@, NewCall("delete", store, id))]
           s1 == addToSyncQueue(s0, [type |-> "delete", store |-> store,
                                     data |-> [id |-> id]], c, NoCont)
       IN  IF \A r \in localDb[store] : r.id # id
           THEN Commit([s0 EXCEPT !.calls[c].state = "error"])
           ELSE Commit([s1 EXCEPT !.idbPending =
                          Append(@, [req |-> "delete", store |-> store,
                                     rec |-> [id |-> id], call |-> c])])
    /\ UNCHANGED <<localDb, remote, remoteMeta, confirmed, peer>>

\* deleteClient(id): addToSyncQueue is called before store.delete, whatever
\* the id is
deleteClient(store, id) ==
    /\ Len(calls) < MaxCalls
    /\ LET c == Len(calls) + 1
           s0 == [Page EXCEPT !.calls = Append(@, NewCall("delete", store, id))]
           s1 == addToSyncQueue(s0, [type |-> "delete", store |-> store,
                                     data |-> [id |-> id]], c, NoCont)
       IN  Commit([s1 EXCEPT !.idbPending =
                      Append(@, [req |-> "delete", store |-> store, rec |-> [id |-> id],
                                 call |-> c])])
    /\ UNCHANGED <<localDb, remote, remoteMeta, confirmed, peer>>

\* deleteClient for a record whose id a call has named before
Delete(store, id) ==
    /\ id \in UsedIds(store)
    /\ deleteClient(store, id)

\* logDocumentAccess: store.get(documentId) is issued
LogDocumentAccess(id) ==
    /\ Len(calls) < MaxCalls
    /\ id \in UsedIds("documents")
    /\ LET c == Len(calls) + 1
       IN  /\ calls' = Append(calls, NewCall("logAccess", "documents", id))
           /\ idbPending' = Append(idbPending, [req |-> "get", store |-> "documents",
                                                rec |-> [id |-> id], call |-> c])
    /\ UNCHANGED <<build, isOnline, deviceId, syncQueue, retryAttempts, passes, lsQueue,
                   lsDeviceId, localDb, remote, remoteMeta, metaCalls, confirmed,
                   resync, peer, storeSync, status, listeners, subs, fetch, exported,
                   auth, trip>>

\* createNotification: store.add, and nothing else
CreateNotification(rec) ==
    /\ Len(calls) < MaxCalls
    /\ Cardinality(UsedIds("notifications")) < Len(UuidsOf("notifications"))
    /\ rec.id = UuidsOf("notifications")[Cardinality(UsedIds("notifications")) + 1]
    /\ LET c == Len(calls) + 1
       IN  Commit([Page EXCEPT
                     !.calls = Append(@, NewCall("create", "notifications", rec.id)),
                     !.idbPending = Append(@, [req |-> "add", store |-> "notifications",
                                               rec |-> rec, call |-> c])])
    /\ UNCHANGED <<localDb, remote, remoteMeta, confirmed, peer>>

\* markNotificationAsRead: store.get(id) is issued
MarkNotificationAsRead(id) ==
    /\ Len(calls) < MaxCalls
    /\ id \in UsedIds("notifications")
    /\ LET c == Len(calls) + 1
       IN  Commit([Page EXCEPT
                     !.calls = Append(@, NewCall("markRead", "notifications", id)),
                     !.idbPending = Append(@, [req |-> "getNotification",
                                               store |-> "notifications",
                                               rec |-> [id |-> id], call |-> c])])
    /\ UNCHANGED <<localDb, remote, remoteMeta, confirmed, peer>>

\* createClient, updateClient and deleteClient of Clients.tsx: the operation
\* goes to the sync queue and nowhere else
ClientsHelper(kind, data) ==
    /\ Len(calls) < MaxCalls
    /\ LET c == Len(calls) + 1
           s0 == [Page EXCEPT !.calls =
                     Append(@, [NewCall(kind, "clients", data.id)
                                   EXCEPT !.via = "Clients.tsx"])]
       IN  Commit(addToSyncQueue(s0, [type |-> kind, store |-> "clients", data |-> data],
                                 c, [kind |-> "resolve", call |-> c, active |-> FALSE]))
    /\ UNCHANGED <<localDb, remote, remoteMeta, confirmed, peer>>

ClientsCreateClient(rec) ==
    /\ Cardinality(UsedIds("clients")) < Len(UuidsOf("clients"))
    /\ rec.id = UuidsOf("clients")[Cardinality(UsedIds("clients")) + 1]
    /\ ClientsHelper("create", rec)

ClientsUpdateClient(rec) ==
    /\ rec.id \in UsedIds("clients")
    /\ ClientsHelper("update", rec)

ClientsDeleteClient(id) ==
    /\ id \in UsedIds("clients")
    /\ ClientsHelper("delete", [id |-> id])

\* object stores whose indexes were created without `unique: true`
NoUniqueIndex(store, rec) == FALSE

\* the unique indexes of onupgradeneeded: users.username, clients.cnic,
\* employees.employeeId
ViolatesUniqueIndex(store, rec) ==
    \/ /\ store = "users"
       /\ \E r \in localDb[store] : r.id # rec.id /\ r.username = rec.username
    \/ /\ store = "clients"
       /\ \E r \in localDb[store] : r.id # rec.id /\ r.cnic = rec.cnic
    \/ /\ store = "employees"
       /\ \E r \in localDb[store] : r.id # rec.id /\ r.employeeId = rec.employeeId

\* the collections syncFromFirebase goes through, in its order (the model
\* holds two of the nine)
ResyncStores == <<"clients", "documents">>

\* Object.values(snapshot.val()) for one collection of the remote store r
NodesOf(r, store) ==
    {r[q] : q \in {x \in Paths : x[1] = store /\ r[x] # NoNode}}

\* the .map of getStoreFromFirebase: the date fields become Date objects (of
\* these the nodes of the model carry lastModified)
FromRemote(item) == [item EXCEPT !.lastModified = NewDate(@)]

\* what getStoreFromFirebase returns for a collection whose get() resolved
StoreRead(r, store) == {FromRemote(item) : item \in NodesOf(r, store)}

\* clearStore: store.clear() in a transaction of its own
clearStore(s, store) ==
    [s EXCEPT !.idbPending =
        Append(@, [req |-> "clear", store |-> store, rec |-> [id |-> ""], call |-> 0])]

\* imp(name, items): one transaction per collection with a store.add for every
\* item.  Promise.all is handed the IDBRequests, not promises, and resolves at
\* once: nothing waits for the adds and no request has an onerror handler.
imp(s, store, items) ==
    [s EXCEPT !.idbPending =
        Append(@, [req |-> "import", store |-> store, rec |-> [id |-> ""], call |-> 0,
                   items |-> items])]

RECURSIVE impAll(_, _)
impAll(s, stores) ==
    IF stores = <<>>
    THEN s
    ELSE impAll(imp(s, Head(stores), s.resync.read[Head(stores)]), Tail(stores))

\* ---------------------------------------------------------- AuthService

\* `const allUsers = await db.getAllUsers()` of AuthService.init
authGetAllUsers(s) ==
    [s EXCEPT !.auth.phase = "reading",
              !.idbPending = Append(@, [req |-> "getAllUsers", store |-> "users",
                                        rec |-> [id |-> ""], call |-> 0])]

\* db.createUser(user) as AuthService.init awaits it: newUser is the user with
\* `id: crypto.randomUUID()` put over the id it came with; addToSyncQueue is
\* called with newUser before store.add.  `phase` is where init stands.
createUser(s, user, phase) ==
    LET c == Len(s.calls) + 1
        used == {s.calls[d].id : d \in {e \in DOMAIN s.calls : s.calls[e].store = "users"}}
        newUser == [id |-> UuidsOf("users")[Cardinality(used) + 1],
                    username |-> user.username]
        s0 == [s EXCEPT !.auth.phase = phase, !.auth.call = c,
                        !.calls = Append(@, [via |-> "DatabaseService", kind |-> "create",
                                             store |-> "users", id |-> newUser.id,
                                             online |-> s.isOnline, state |-> "pending",
                                             op |-> NoOp])]
        s1 == addToSyncQueue(s0, [type |-> "create", store |-> "users", data |-> newUser],
                             c, NoCont)
    IN  [s1 EXCEPT !.idbPending =
            Append(@, [req |-> "add", store |-> "users", rec |-> newUser, call |-> c])]

\* the for-loop of AuthService.init over firebaseUsers, then getAllUsers
authCreateNext(s) ==
    IF s.auth.todo = <<>>
    THEN authGetAllUsers(s)
    ELSE createUser([s EXCEPT !.auth.todo = Tail(@)], Head(s.auth.todo), "creating")

\* AuthService.init after `await db.createUser(...)` for the call c that
\* stored rec.  In the loop a rejection is caught ('Firebase sync failed,
\* using local data') and init goes on with getAllUsers.  After the default
\* admin was created init hands it to addToSyncQueue once more if connected;
\* a rejection there ends init in its outer catch.
afterUserAdd(s, c, rec) ==
    IF s.auth.call # c \/ s.auth.phase \notin {"creating", "admin"}
    THEN s
    ELSE IF s.auth.phase = "creating"
         THEN IF s.calls[c].state = "ok" THEN authCreateNext(s) ELSE authGetAllUsers(s)
         ELSE IF s.calls[c].state = "ok" /\ s.auth.connected
              THEN LET c2 == Len(s.calls) + 1
                       s0 == [s EXCEPT !.auth.phase = "done",
                                 !.calls = Append(@, [via |-> "AuthService",
                                              kind |-> "create", store |-> "users",
                                              id |-> rec.id, online |-> s.isOnline,
                                              state |-> "pending", op |-> NoOp])]
                   IN  addToSyncQueue(s0, [type |-> "create", store |-> "users",
                                           data |-> rec],
                                      c2, [kind |-> "resolve", call |-> c2,
                                           active |-> FALSE])
              ELSE [s EXCEPT !.auth.phase = "done"]

\* AuthService.init after `await db.getAllUsers()` returned users
afterGetAllUsers(s, users) ==
    IF users = {}
    THEN createUser(s, [username |-> "admin"], "admin")
    ELSE [s EXCEPT !.auth.phase = "done"]

\* after `await this.clearStore(s)`.  In syncFromFirebase the next collection
\* is cleared, after the last one the imports are issued and the promise
\* resolves; in AuthService.init the users found are created
afterClear(s) ==
    IF s.resync.phase # "clearing"
    THEN IF s.auth.phase = "clearing" THEN authCreateNext(s) ELSE s
    ELSE IF s.resync.todo # <<>>
         THEN clearStore([s EXCEPT !.resync.todo = Tail(@)], Head(s.resync.todo))
         ELSE impAll([s EXCEPT !.resync.phase = "resolved"], ResyncStores)

\* an add of the import transaction fails with ConstraintError: the key is
\* present, or a unique index would hold a value twice.  The error is not
\* handled, so the transaction aborts and none of its adds is kept.
ImportAborts(store, items) ==
    \E r \in items :
        \/ \E x \in localDb[store] : x.id = r.id
        \/ ViolatesUniqueIndex(store, r)
        \/ \E x \in items : x # r /\ x.id = r.id
        \/ store = "clients" /\ \E x \in items : x.id # r.id /\ x.cnic = r.cnic

\* the import transaction of the last collection has finished
afterImport(s) ==
    IF s.resync.phase = "resolved"
          /\ ~\E i \in DOMAIN s.idbPending : s.idbPending[i].req = "import"
    THEN [s EXCEPT !.resync.phase = "stored"]
    ELSE s

\* the collections exportData reads with getAll (of the nine, employees and
\* attendance are not among them)
ExportedStores == {"users", "clients", "receipts", "expenses", "activities",
                   "notifications", "documents"}

\* DatabaseService.getDeviceId: the item 'arkive-device-id', made if missing
DbDeviceId(s) == IF s.lsDeviceId = NoItem THEN ThisDevice ELSE s.lsDeviceId

\* the object exportData hands to JSON.stringify, for the collections db
ExportDocument(db, s) ==
    [exportDate |-> toISOString(DateOf(Cardinality(OpsOf(s.calls)))),
     version |-> dbVersion, appName |-> "Arkive", deviceId |-> DbDeviceId(s)]
       @@ [st \in ExportedStores \cap DOMAIN db |-> db[st]]

\* exportData: the getAll requests are issued, each in a transaction of its
\* own and all in one task
ExportData ==
    /\ exported.phase = "idle"
    /\ Commit([Page EXCEPT
                  !.exported = [phase |-> "reading"],
                  !.idbPending = Append(@, [req |-> "getAll", store |-> "clients",
                                            rec |-> [id |-> ""], call |-> 0])])
    /\ UNCHANGED <<localDb, remote, remoteMeta, confirmed, peer>>

\* IndexedDB completes the oldest request and fires its onsuccess / onerror
IdbComplete ==
    /\ idbPending # <<>>
    /\ LET r == Head(idbPending)
           s0 == [Page EXCEPT !.idbPending = Tail(@)]
           present == {x \in localDb[r.store] : x.id = r.rec.id}
       IN  CASE r.req = "add" ->
                  IF present # {} \/ ViolatesUniqueIndex(r.store, r.rec)
                  THEN /\ Commit(afterUserAdd([s0 EXCEPT !.calls[r.call].state = "error"],
                                              r.call, r.rec))
                       /\ UNCHANGED localDb
                  ELSE /\ Commit(afterUserAdd([s0 EXCEPT !.calls[r.call].state = "ok"],
                                              r.call, r.rec))
                       /\ localDb' = [localDb EXCEPT ![r.store] = @ \cup {r.rec}]
            [] r.req = "put" ->
                  IF ViolatesUniqueIndex(r.store, r.rec)
                  THEN /\ Commit([s0 EXCEPT !.calls[r.call].state = "error"])
                       /\ UNCHANGED localDb
                  ELSE /\ Commit([s0 EXCEPT !.calls[r.call].state = "ok"])
                       /\ localDb' = [localDb EXCEPT ![r.store] = (@ \ present) \cup {r.rec}]
            [] r.req = "delete" ->
                  /\ Commit([s0 EXCEPT !.calls[r.call].state = "ok"])
                  /\ localDb' = [localDb EXCEPT ![r.store] = @ \ present]
            [] r.req = "clear" ->
                  /\ Commit(afterClear(s0))
                  /\ localDb' = [localDb EXCEPT ![r.store] = {}]
            [] r.req = "import" ->
                  /\ Commit(afterImport(s0))
                  /\ localDb' = [localDb EXCEPT ![r.store] =
                                   IF ImportAborts(r.store, r.items) THEN @
                                   ELSE @ \cup r.items]
            [] r.req = "getAll" ->
                  \* the reads of exportData: `local` keeps what the
                  \* collections hold when they are read
                  /\ UNCHANGED localDb
                  /\ Commit([s0 EXCEPT !.exported =
                                [phase |-> "done", local |-> localDb,
                                 doc |-> ExportDocument(localDb, s0)]])
            [] r.req = "getAllUsers" ->
                  /\ UNCHANGED localDb
                  /\ Commit(afterGetAllUsers(s0, localDb["users"]))
            [] r.req = "getNotification" ->
                  \* getReq.onsuccess of markNotificationAsRead: the put is
                  \* issued in the transaction of the get, ahead of the
                  \* requests of later transactions
                  /\ UNCHANGED localDb
                  /\ IF present = {}
                     THEN Commit([s0 EXCEPT !.calls[r.call].state = "ok"])
                     ELSE LET n == CHOOSE x \in present : TRUE
                          IN  Commit([s0 EXCEPT !.idbPending =
                                  <<[req |-> "put", store |-> r.store,
                                     rec |-> [n EXCEPT !.read = TRUE],
                                     call |-> r.call]>> \o @])
            [] r.req = "get" ->
                  \* getReq.onsuccess of logDocumentAccess
                  /\ UNCHANGED localDb
                  /\ IF present = {}
                     THEN Commit([s0 EXCEPT !.calls[r.call].state = "ok"])
                     ELSE LET doc == CHOOSE x \in present : TRUE
                              upd == [doc EXCEPT !.accessLog = @ + 1]
                          IN  Commit(addToSyncQueue(s0,
                                  [type |-> "update", store |-> "documents", data |-> upd],
                                  r.call, [kind |-> "put", call |-> r.call, active |-> TRUE]))
    /\ UNCHANGED <<remote, remoteMeta, confirmed, peer>>

\* syncFromFirebase, from its entry to the first request it waits for.
\* Offline, getStoreFromFirebase of Rev1 returns [] for every collection and
\* the clearing starts; that of Rev2 throws.  `remote` keeps what the remote
\* collections hold at the time they are read (or, if they are not read, at
\* the time of the call), `local` what the local ones hold at the call,
\* `made` the number of DatabaseService calls made before it and `quiet`
\* whether all their IndexedDB requests had completed.
SyncFromFirebase ==
    /\ resync.phase = "idle"
    /\ LET nothing == [st \in Stores |-> {}]
           s0 == [Page EXCEPT !.resync = [phase |-> "reading", read |-> nothing,
                                          remote |-> remote, todo |-> <<>>,
                                          local |-> localDb, made |-> Len(calls),
                                          quiet |-> idbPending = <<>>]]
       IN  IF isOnline /\ validateAccess(Page)
           THEN Commit(s0)
           ELSE IF build = Rev2
                THEN Commit([s0 EXCEPT !.resync.phase = "failed"])
                ELSE Commit(clearStore([s0 EXCEPT !.resync.phase = "clearing",
                                                  !.resync.todo = Tail(ResyncStores)],
                                       Head(ResyncStores)))
    /\ UNCHANGED <<localDb, remote, remoteMeta, confirmed, peer>>

\* the get() calls of getStoreFromFirebase settle; those of the collections in
\* `failed` reject.  Rev1 returns [] for a collection whose read failed, Rev2
\* rethrows and syncFromFirebase rejects with local data untouched.
StoresRead(failed) ==
    /\ resync.phase = "reading"
    /\ LET read == [st \in Stores |->
                      IF st \in failed THEN {} ELSE StoreRead(remote, st)]
           s0 == [Page EXCEPT !.resync.remote = remote, !.resync.read = read]
       IN  IF failed # {} /\ build = Rev2
           THEN Commit([s0 EXCEPT !.resync.phase = "failed"])
           ELSE Commit(clearStore([s0 EXCEPT !.resync.phase = "clearing",
                                             !.resync.todo = Tail(ResyncStores)],
                                  Head(ResyncStores)))
    /\ UNCHANGED <<localDb, remote, remoteMeta, confirmed, peer>>

\* the documents a user can hand to importData, parsed: exports of this
\* application with two clients, edited or not
Backups == {[st \in Stores |-> IF st = "clients" THEN S ELSE {}] :
               S \in {T \in SUBSET Records("clients") : Cardinality(T) = 2}}

\* the collections importData clears, in its order (of the nine, the three
\* that the runs with a backup fill); it adds the items of data.clients and
\* data.documents, and `data.employees || []`
ImportStores == <<"clients", "documents", "employees">>

\* importData(json): the collections are cleared one after the other, then
\* importStore issues a store.add for every item, one transaction per
\* collection and no error handler, as imp of syncFromFirebase does
ImportData(data) ==
    /\ resync.phase = "idle"
    /\ Commit(clearStore([Page EXCEPT !.resync =
                             [phase |-> "clearing", read |-> data, remote |-> remote,
                              todo |-> Tail(ImportStores), local |-> localDb,
                              made |-> Len(calls), quiet |-> idbPending = <<>>]],
                         Head(ImportStores)))
    /\ UNCHANGED <<localDb, remote, remoteMeta, confirmed, peer>>

\* storeData of syncStoreToFirebase: every item under its id, stamped
StoreData(s, data) ==
    {SyncStamp([timestamp |-> DateOf(Cardinality(OpsOf(s.calls)))], s) @@ item :
        item \in data}

\* syncStoreToFirebase(store, all local records of store), up to its remote
\* call.  Offline Rev1 returns, so the promise resolves; Rev2 throws.
SyncStoreToFirebase(store) ==
    /\ storeSync.phase = "idle"
    /\ LET s0 == [Page EXCEPT !.storeSync = [phase |-> "sent", store |-> store,
                                             data |-> localDb[store]]]
       IN  IF isOnline /\ validateAccess(Page)
           THEN Commit(s0)
           ELSE IF build = Rev2
                THEN Commit([s0 EXCEPT !.storeSync.phase = "rejected"])
                ELSE Commit([s0 EXCEPT !.storeSync.phase = "resolved"])
    /\ UNCHANGED <<localDb, remote, remoteMeta, confirmed, peer>>

\* set(storeRef, storeData) resolves: the collection node is storeData, so a
\* record that is not in it is gone.  Rev2 then resets retryAttempts.
StoreSyncAccept ==
    /\ storeSync.phase = "sent"
    /\ remote' = [q \in Paths |->
                    IF q[1] # storeSync.store
                    THEN remote[q]
                    ELSE LET nodes == {n \in StoreData(Page, storeSync.data) :
                                          n.id = q[2]}
                         IN  IF nodes = {} THEN NoNode ELSE CHOOSE n \in nodes : TRUE]
    /\ Commit([Page EXCEPT !.storeSync.phase = "resolved",
                            !.retryAttempts = IF build = Rev2 THEN 0 ELSE @])
    /\ UNCHANGED <<localDb, remoteMeta, confirmed, peer>>

\* set(storeRef, storeData) rejects: Rev1 logs the error and the promise
\* resolves, Rev2 rethrows
StoreSyncReject ==
    /\ storeSync.phase = "sent"
    /\ Commit([Page EXCEPT !.storeSync.phase =
                               IF build = Rev2 THEN "rejected" ELSE "resolved"])
    /\ UNCHANGED <<localDb, remote, remoteMeta, confirmed, peer>>

\* --------------------------------------------- events of the sync service

\* window 'online': the browser fires it when connectivity comes back
Online ==
    /\ ~isOnline
    /\ Commit(processSyncQueue([Page EXCEPT !.isOnline = TRUE, !.retryAttempts = 0],
                               NoCont))
    /\ UNCHANGED <<localDb, remote, remoteMeta, confirmed, peer>>

\* window 'offline'
Offline ==
    /\ isOnline
    /\ isOnline' = FALSE
    /\ UNCHANGED <<build, deviceId, syncQueue, retryAttempts, passes, lsQueue, lsDeviceId,
                   localDb, idbPending, calls, remote, remoteMeta, metaCalls, confirmed,
                   resync, peer, storeSync, status, listeners, subs, fetch, exported,
                   auth, trip>>

\* the setInterval callback of the constructor (Rev2 only)
Timer ==
    /\ build = Rev2
    /\ IF isOnline /\ Len(syncQueue) > 0
       THEN Commit(processSyncQueue(Page, NoCont))
       ELSE Commit(Page)
    /\ UNCHANGED <<localDb, remote, remoteMeta, confirmed, peer>>

RemoveAt(seq, i) == SubSeq(seq, 1, i - 1) \o SubSeq(seq, i + 1, Len(seq))

\* the remote call that pass number i awaits resolves: the write is stored and
\* the for-loop goes on with the next operation.  The database client sends
\* its writes over one connection and the server applies and acknowledges them
\* in the order sent, so the oldest call in flight is the one that resolves.
RemoteAccept(i) ==
    /\ i \in DOMAIN passes
    /\ i = 1
    /\ LET p == passes[i]
           operation == Head(p.queue)
       IN  /\ remote' = [remote EXCEPT ![<<operation.store, operation.data.id>>] =
                            IF operation.type = "delete" THEN NoNode
                            ELSE set(@, RemoteNode(operation, Page))]
           /\ confirmed' = confirmed \cup {operation.id}
           /\ Commit(syncLoop([Page EXCEPT !.passes = RemoveAt(@, i)], Tail(p.queue), p.k))
    /\ UNCHANGED <<localDb, remoteMeta, peer>>

\* the remote call that pass number i awaits rejects (the server refuses the
\* write, or the client does before sending it): the catch block of
\* processSyncQueue
RemoteReject(i) ==
    /\ i \in DOMAIN passes
    /\ retryAttempts < MaxAttempts
    /\ LET p == passes[i]
       IN  Commit(syncLoop(catchSyncError([Page EXCEPT !.passes = RemoveAt(@, i)],
                                          Head(p.queue)),
                           Tail(p.queue), p.k))
    /\ UNCHANGED <<localDb, remote, remoteMeta, confirmed, peer>>

\* a performFullSync without its check of isOnline
performFullSyncUnchecked(s) ==
    IF ~validateAccess(s)
    THEN [error |-> "Unauthorized sync attempt", page |-> s]
    ELSE [error |-> NoError,
          page |-> processSyncQueue(s,
                      [kind |-> "fullsync", call |-> 0, active |-> FALSE,
                       queued |-> {s.syncQueue[i].id : i \in DOMAIN s.syncQueue}])]

\* performFullSync, from its entry to its first remote call: the error it
\* throws before it has done anything, if it does, and the page as it leaves it
performFullSync(s) ==
    IF ~s.isOnline
    THEN [error |-> "Cannot sync while offline", page |-> s]
    ELSE IF ~validateAccess(s)
         THEN [error |-> "Unauthorized sync attempt", page |-> s]
         ELSE [error |-> NoError,
               page |-> processSyncQueue(s,
                           [kind |-> "fullsync", call |-> 0, active |-> FALSE,
                            queued |-> {s.syncQueue[i].id : i \in DOMAIN s.syncQueue}])]

PerformFullSync ==
    /\ Cardinality(metaCalls)
          + Cardinality({i \in DOMAIN passes : passes[i].k.kind = "fullsync"})
          < MaxFullSyncs
    /\ Commit(performFullSync(Page).page)
    /\ UNCHANGED <<localDb, remote, remoteMeta, confirmed, peer>>

\* set(syncRef, ...) of performFullSync resolves; Rev2 then resets retryAttempts
MetaAccept(m) ==
    /\ m \in metaCalls
    /\ remoteMeta' = m.meta
    /\ Commit([Page EXCEPT !.metaCalls = @ \ {m}, !.retryAttempts = 0])
    /\ UNCHANGED <<localDb, remote, confirmed, peer>>

\* set(syncRef, ...) of performFullSync rejects: 'Full sync failed' is rethrown
MetaReject(m) ==
    /\ m \in metaCalls
    /\ Commit([Page EXCEPT !.metaCalls = @ \ {m}])
    /\ UNCHANGED <<localDb, remote, remoteMeta, confirmed, peer>>

\* the return statement of getSyncStatus; `read` says how get(syncRef) ended,
\* if it was called
StatusReturned(s, read, lastSync) ==
    [s EXCEPT !.status = [phase |-> "returned", n |-> s.status.n, read |-> read,
                          lastSync |-> lastSync, isOnline |-> s.isOnline,
                          queueLength |-> Len(s.syncQueue)]]

\* getSyncStatus up to get(syncRef); offline it returns at once, and so does
\* Rev2 when validateAccess throws
GetSyncStatus ==
    /\ status.phase # "reading"
    /\ status.n < MaxStatusCalls
    /\ LET s0 == [Page EXCEPT !.status = [phase |-> "reading", n |-> status.n + 1]]
       IN  IF isOnline /\ validateAccess(Page)
           THEN Commit(s0)
           ELSE Commit(StatusReturned(s0, "none", Null))
    /\ UNCHANGED <<localDb, remote, remoteMeta, confirmed, peer>>

\* get(syncRef) resolves with the node sync_metadata/{deviceId}
StatusRead ==
    /\ status.phase = "reading"
    /\ Commit(StatusReturned(Page, "ok",
                              IF remoteMeta # NoNode /\ remoteMeta.deviceId = deviceId
                              THEN NewDate(remoteMeta.lastSync) ELSE Null))
    /\ UNCHANGED <<localDb, remote, remoteMeta, confirmed, peer>>

\* get(syncRef) rejects: the error is logged
StatusReadError ==
    /\ status.phase = "reading"
    /\ Commit(StatusReturned(Page, "failed", Null))
    /\ UNCHANGED <<localDb, remote, remoteMeta, confirmed, peer>>

\* setupRealtimeListener(store, callback): offline it returns, and so does
\* Rev2 when validateAccess throws; otherwise onValue attaches a listener and
\* what it returns replaces the entry of this.listeners.  The n-th call is
\* subs[n]: `attached` says whether the database client holds its listener,
\* `removed` whether removeRealtimeListener(store) or cleanup() has returned
\* since, `last` what its callback was last invoked with, `failed` whether
\* the subscription has failed: the call returned before onValue, or the
\* database client has cancelled the listener.
SetupRealtimeListener(store) ==
    /\ Len(subs) < MaxSetups
    /\ LET n == Len(subs) + 1
           sub == [store |-> store, attached |-> isOnline /\ validateAccess(Page),
                   removed |-> FALSE, last |-> NoSnapshot,
                   failed |-> ~(isOnline /\ validateAccess(Page))]
           s0 == [Page EXCEPT !.subs = Append(@, sub)]
       IN  IF sub.attached
           THEN Commit([s0 EXCEPT !.listeners[store] = n])
           ELSE Commit(s0)
    /\ UNCHANGED <<localDb, remote, remoteMeta, confirmed, peer>>

\* off(storeRef, 'value', handle): the listener whose callback is `handle` is
\* detached.  The code passes what onValue returned.  If that is the callback
\* (as with ref.on of the namespaced API) the listener it came from is
\* detached; if it is the unsubscribe function of the modular API, it is the
\* callback of no listener and none is detached.
off(s, handle, detaches) ==
    IF detaches THEN [s EXCEPT !.subs[handle].attached = FALSE] ELSE s

\* the setup calls `seq` with those for the store marked as removed
RECURSIVE MarkRemoved(_, _)
MarkRemoved(seq, store) ==
    IF seq = <<>>
    THEN <<>>
    ELSE <<IF Head(seq).store = store
           THEN [Head(seq) EXCEPT !.removed = TRUE]
           ELSE Head(seq)>> \o MarkRemoved(Tail(seq), store)

\* every earlier setup call for the store has from now on been followed by a
\* removal
Returned(s, store) == [s EXCEPT !.subs = MarkRemoved(@, store)]

removeRealtimeListener(s, store, detaches) ==
    IF s.listeners[store] # NoListener
    THEN Returned([off(s, s.listeners[store], detaches) EXCEPT
                      !.listeners[store] = NoListener], store)
    ELSE Returned(s, store)

RemoveRealtimeListener(store) ==
    /\ subs # <<>>
    /\ \E detaches \in BOOLEAN : Commit(removeRealtimeListener(Page, store, detaches))
    /\ UNCHANGED <<localDb, remote, remoteMeta, confirmed, peer>>

\* cleanup(): removeRealtimeListener for every key of this.listeners
Cleanup ==
    /\ subs # <<>>
    /\ \E detaches \in BOOLEAN :
          Commit(IF listeners["clients"] # NoListener
                 THEN removeRealtimeListener(Page, "clients", detaches)
                 ELSE Page)
    /\ UNCHANGED <<localDb, remote, remoteMeta, confirmed, peer>>

\* what the callback of a listener is invoked with: the items as the .map of
\* the listener makes them, which is the .map of getStoreFromFirebase
Snapshot(r, store) == [invoked |-> TRUE, data |-> StoreRead(r, store)]

\* the database client fires the 'value' event of an attached listener: at
\* first with the current contents, later when the collection has changed
ListenerFires(i) ==
    /\ i \in DOMAIN subs
    /\ subs[i].attached
    /\ subs[i].last # Snapshot(remote, subs[i].store)
    /\ Commit([Page EXCEPT !.subs[i].last = Snapshot(remote, subs[i].store)])
    /\ UNCHANGED <<localDb, remote, remoteMeta, confirmed, peer>>

\* callback([]) of the listener
EmptySnapshot == [invoked |-> TRUE, data |-> {}]

\* the database client cancels an attached listener (the connection is lost
\* for good, or the server denies the read) and calls the error callback of
\* onValue: that of Rev2 invokes callback([]), Rev1 passes none
ListenerCancelled(i) ==
    /\ i \in DOMAIN subs
    /\ subs[i].attached
    /\ Commit([Page EXCEPT !.subs[i] =
                  [subs[i] EXCEPT !.attached = FALSE, !.failed = TRUE,
                                  !.last = IF build = Rev2 THEN EmptySnapshot ELSE @]])
    /\ UNCHANGED <<localDb, remote, remoteMeta, confirmed, peer>>

\* what a getStoreFromFirebase call ends with: `thrown` says whether the
\* promise rejected, `failed` whether the collection could not be read
FetchEnded(s, thrown, failed, result) ==
    [s EXCEPT !.fetch = [phase |-> IF thrown THEN "thrown" ELSE "returned",
                         store |-> s.fetch.store, failed |-> failed,
                         result |-> result]]

\* getStoreFromFirebase(store) up to get(storeRef).  Offline Rev1 returns [],
\* Rev2 throws 'Cannot fetch data while offline', and 'Unauthorized access
\* attempt' when validateAccess throws.
GetStoreFromFirebase(store) ==
    /\ fetch.phase = "idle"
    /\ LET s0 == [Page EXCEPT !.fetch = [phase |-> "reading", store |-> store]]
       IN  IF isOnline /\ validateAccess(Page)
           THEN Commit(s0)
           ELSE Commit(FetchEnded(s0, build = Rev2, TRUE, {}))
    /\ UNCHANGED <<localDb, remote, remoteMeta, confirmed, peer>>

\* get(storeRef) resolves: the items of the collection, or [] for none
GetResolves ==
    /\ fetch.phase = "reading"
    /\ Commit(FetchEnded(Page, FALSE, FALSE, StoreRead(remote, fetch.store)))
    /\ UNCHANGED <<localDb, remote, remoteMeta, confirmed, peer>>

\* get(storeRef) rejects: Rev1 logs the error and returns [], Rev2 logs it
\* and rethrows
GetRejects ==
    /\ fetch.phase = "reading"
    /\ Commit(FetchEnded(Page, build = Rev2, TRUE, {}))
    /\ UNCHANGED <<localDb, remote, remoteMeta, confirmed, peer>>

\* the date fields of the records a caller passes here: those of an
\* employee's attendance record and of a user
DateFields == {"createdAt", "updatedAt", "lastLogin", "joinDate", "checkIn"}

\* JSON.parse(JSON.stringify(record)): a Date comes back as its ISO string
JsonRecord(x) ==
    [f \in DOMAIN x |-> IF f \in DateFields THEN toISOString(x[f]) ELSE x[f]]

\* JSON.parse of the document exportData returned, as importData reads it:
\* the collections of the document, and [] for a key it does not have
JsonParsed(doc) ==
    [st \in Stores \cup {"employees"} |->
        IF st \in DOMAIN doc THEN {JsonRecord(x) : x \in doc[st]} ELSE {}]

\* importData(await exportData()): the backup just made is restored
ImportExported ==
    /\ exported.phase = "done"
    /\ ImportData(JsonParsed(exported.doc))

\* a record with an id and some of the date fields, each a Date
DatedRecords ==
    {[f \in F \cup {"id"} |-> IF f = "id" THEN <<"id", "a1">> ELSE DateOf(7)] :
        F \in SUBSET DateFields}

\* a create of DatabaseService hands the record to addToSyncQueue
TripMade(rec) ==
    /\ trip.phase = "idle"
    /\ Commit([Page EXCEPT !.trip = [phase |-> "made", rec |-> rec]])
    /\ UNCHANGED <<localDb, remote, remoteMeta, confirmed, peer>>

\* set(dataRef, ...) of syncToFirebase has stored the record
TripStored(asJson) ==
    /\ trip.phase = "made"
    /\ LET operation == [type |-> "create", store |-> "attendance", data |-> trip.rec,
                         timestamp |-> DateOf(7)]
       IN  Commit([Page EXCEPT !.trip =
                     [phase |-> "stored", rec |-> trip.rec,
                      node |-> SyncStamp(operation, Page)
                                  @@ Stored(operation.data, asJson)]])
    /\ UNCHANGED <<localDb, remote, remoteMeta, confirmed, peer>>

\* getStoreFromFirebase has read the node back
TripRead ==
    /\ trip.phase = "stored"
    /\ Commit([Page EXCEPT !.trip =
                  [phase |-> "read", rec |-> trip.rec, node |-> trip.node,
                   back |-> MapItem(trip.node)]])
    /\ UNCHANGED <<localDb, remote, remoteMeta, confirmed, peer>>

\* the writes of the first n passes in flight, applied to the remote store r
RECURSIVE Landed(_, _)
Landed(n, r) ==
    IF n = 0
    THEN r
    ELSE LET operation == Head(passes[n].queue)
         IN  [Landed(n - 1, r) EXCEPT ![<<operation.store, operation.data.id>>] =
                 IF operation.type = "delete" THEN NoNode
                 ELSE set(@, RemoteNode(operation, Page))]

\* the records the other device passes to updateClient: the client as that
\* device edits it, here with a phone number
PeerRecords == {[id |-> i, cnic |-> n, phone |-> "p"] :
                   i \in RecordIds("clients"), n \in Cnics}

\* the other device, online and running the same build, has updated a client
\* it knows from the remote store: the set() of its syncToFirebase resolves
PeerUpdate(rec) ==
    /\ Len(peer) < MaxPeerWrites
    /\ remote[<<"clients", rec.id>>] # NoNode
    /\ LET operation == [type |-> "update", store |-> "clients", data |-> rec,
                         timestamp |-> DateOf(0)]
           s == [build |-> build, deviceId |-> OtherDevice]
       IN  remote' = [remote EXCEPT ![<<"clients", rec.id>>] =
                         set(@, RemoteNode(operation, s))]
    /\ peer' = Append(peer, rec)
    /\ UNCHANGED <<build, isOnline, deviceId, syncQueue, retryAttempts, passes, lsQueue,
                   lsDeviceId, localDb, idbPending, calls, remoteMeta, metaCalls,
                   confirmed, resync, storeSync, status, listeners, subs, fetch,
                   exported, auth, trip>>

\* AuthService.init, from its entry to the first promise it waits for.  The
\* firebaseSync.ts revision has no checkConnection: the call throws a
\* TypeError, which the outer catch of init logs, and init ends.  Offline,
\* checkConnection returns false and init goes on with the local users.
\* (What init does afterwards with the stored session touches nothing here.)
AuthInit ==
    /\ auth.phase \in {"idle", "done", "lost"}
    /\ auth.n < MaxInits
    /\ Cardinality(UsedIds("users")) < Len(UuidsOf("users"))
    /\ LET s0 == [Page EXCEPT !.auth = [NoAuth EXCEPT !.n = auth.n + 1]]
       IN  IF build = Rev1
           THEN Commit([s0 EXCEPT !.auth.phase = "done"])
           ELSE IF ~isOnline
                THEN Commit(authGetAllUsers(s0))
                ELSE Commit([s0 EXCEPT !.auth.phase = "checking"])
    /\ UNCHANGED <<localDb, remote, remoteMeta, confirmed, peer>>

\* get(testRef) of checkConnection settles and init has isConnected; if it is
\* true, getStoreFromFirebase('users') is called, which throws when offline
\* or unauthorised
AuthConnection(connected) ==
    /\ auth.phase = "checking"
    /\ LET s0 == [Page EXCEPT !.auth.connected = connected]
       IN  IF connected /\ isOnline /\ validateAccess(Page)
           THEN Commit([s0 EXCEPT !.auth.phase = "fetching"])
           ELSE Commit(authGetAllUsers(s0))
    /\ UNCHANGED <<localDb, remote, remoteMeta, confirmed, peer>>

\* get(storeRef) of getStoreFromFirebase('users') settles.  Of each user found
\* init passes on id, username, password, role, createdAt and lastLogin (the
\* model carries the first two); with users found the local users are cleared.
AuthUsersRead(ok) ==
    /\ auth.phase = "fetching"
    /\ LET found == {[id |-> x.id, username |-> x.username] :
                        x \in NodesOf(remote, "users")}
           ids == SelectSeq(UuidsOf("users"), LAMBDA id : \E x \in found : x.id = id)
           todo == [i \in DOMAIN ids |-> CHOOSE x \in found : x.id = ids[i]]
       IN  /\ Cardinality(UsedIds("users")) + Cardinality(found)
                 <= Len(UuidsOf("users"))
           /\ IF ok /\ found # {}
              THEN Commit(clearStore([Page EXCEPT !.auth.phase = "clearing",
                                                  !.auth.found = found,
                                                  !.auth.todo = todo],
                                     "users"))
              ELSE Commit(authGetAllUsers(Page))
    /\ UNCHANGED <<localDb, remote, remoteMeta, confirmed, peer>>

\* the page is reloaded: memory, running passes and open transactions are
\* gone; the constructor runs again.  The oldest writes in flight, and the
\* metadata write of a full sync, may still reach the server, without anyone
\* left to see them resolve.
Restart ==
    /\ \E n \in 0..Len(passes) : remote' = Landed(n, remote)
    /\ remoteMeta' \in {remoteMeta} \cup {m.meta : m \in metaCalls}
    /\ Commit(loadSyncQueue(getDeviceId(
          [Page EXCEPT !.syncQueue = <<>>, !.retryAttempts = 0, !.passes = <<>>,
                       !.idbPending = <<>>, !.metaCalls = {},
                       !.resync.phase = IF @ \in {"idle", "failed", "stored"}
                                        THEN @ ELSE "lost",
                       !.storeSync.phase = IF @ = "sent" THEN "lost" ELSE @,
                       !.status = [phase |-> "idle", n |-> @.n],
                       !.listeners = [st \in DOMAIN listeners |-> NoListener],
                       !.subs = <<>>,
                       !.fetch.phase = IF @ = "reading" THEN "lost" ELSE @,
                       !.exported.phase = IF @ = "reading" THEN "lost" ELSE @,
                       !.auth.phase = IF @ \in {"idle", "done"} THEN @ ELSE "lost",
                       !.calls = [c \in DOMAIN calls |->
                                    IF calls[c].state = "pending"
                                    THEN [calls[c] EXCEPT !.state = "lost"]
                                    ELSE calls[c]]])))
    /\ UNCHANGED <<localDb, confirmed, peer>>

\* ------------------------------------------------------- specification

\* a fresh installation after `new FirebaseSyncService()`, `new DatabaseService()`
Init ==
    /\ build \in {Rev1, Rev2}
    /\ isOnline \in BOOLEAN
    /\ deviceId = ThisDevice
    /\ lsDeviceId = ThisDevice
    /\ syncQueue = <<>>
    /\ retryAttempts = 0
    /\ passes = <<>>
    /\ lsQueue = NoQueue
    /\ localDb = [st \in LocalStores |-> {}]
    /\ idbPending = <<>>
    /\ calls = <<>>
    /\ remote = [q \in Paths |-> NoNode]
    /\ remoteMeta = NoNode
    /\ metaCalls = {}
    /\ confirmed = {}
    /\ resync = NoResync
    /\ peer = <<>>
    /\ storeSync = NoStoreSync
    /\ status = NoStatus
    /\ listeners = [st \in {"clients"} |-> NoListener]
    /\ subs = <<>>
    /\ fetch = NoFetch
    /\ trip = NoTrip
    /\ exported = NoExport
    /\ auth = NoAuth

Next ==
    \/ \E st \in Stores : \E rec \in Records(st) : Create(st, rec)
    \/ \E rec \in Records("clients") : Update("clients", rec)
    \/ \E id \in RecordIds("clients") : Delete("clients", id)
    \/ \E id \in RecordIds("documents") : LogDocumentAccess(id)
    \/ IdbComplete
    \/ Online
    \/ Offline
    \/ Timer
    \/ \E i \in DOMAIN passes : RemoteAccept(i)
    \/ \E i \in DOMAIN passes : RemoteReject(i)

Spec == Init /\ [][Next]_vars

\* the same with page reloads
NextRestart ==
    \/ Next
    \/ Restart

SpecRestart == Init /\ [][NextRestart]_vars

\* the same with the manual full sync
NextFullSync ==
    \/ Next
    \/ PerformFullSync
    \/ \E m \in metaCalls : MetaAccept(m)
    \/ \E m \in metaCalls : MetaReject(m)

SpecFullSync == Init /\ [][NextFullSync]_vars

\* the same with the Clients page, whose helpers bypass DatabaseService
NextClients ==
    \/ Next
    \/ \E rec \in Records("clients") : ClientsCreateClient(rec)
    \/ \E rec \in Records("clients") : ClientsUpdateClient(rec)
    \/ \E id \in RecordIds("clients") : ClientsDeleteClient(id)

SpecClients == Init /\ [][NextClients]_vars
\* clients created and deleted through DatabaseService, and the sync events
NextCreate ==
    \/ \E rec \in Records("clients") : Create("clients", rec)
    \/ \E id \in RecordIds("clients") : Delete("clients", id)
    \/ IdbComplete
    \/ Online
    \/ Offline
    \/ Timer
    \/ \E i \in DOMAIN passes : RemoteAccept(i)
    \/ \E i \in DOMAIN passes : RemoteReject(i)

SpecCreate == Init /\ [][NextCreate]_vars

\* clients are created and deleted, and the Vault page resyncs from remote
NextResync ==
    \/ NextCreate
    \/ SyncFromFirebase
    \/ \E failed \in SUBSET Stores : StoresRead(failed)

SpecResync == Init /\ [][NextResync]_vars

\* clients are created and deleted, notifications created and marked as read
NextNotify ==
    \/ NextCreate
    \/ \E rec \in Records("notifications") : CreateNotification(rec)
    \/ \E id \in RecordIds("notifications") : MarkNotificationAsRead(id)

SpecNotify == Init /\ [][NextNotify]_vars

\* clients are created and updated on this device and updated on another
\* one, with connectivity as it is at the start
NextPeers ==
    \/ \E rec \in Records("clients") : Create("clients", rec)
    \/ \E rec \in Records("clients") : Update("clients", rec)
    \/ IdbComplete
    \/ \E i \in DOMAIN passes : RemoteAccept(i)
    \/ \E i \in DOMAIN passes : RemoteReject(i)
    \/ \E rec \in PeerRecords : PeerUpdate(rec)

SpecPeers == Init /\ [][NextPeers]_vars

\* clients are created and deleted, and the clients collection is pushed to
\* the remote store as a whole
NextStoreSync ==
    \/ NextCreate
    \/ SyncStoreToFirebase("clients")
    \/ StoreSyncAccept
    \/ StoreSyncReject

SpecStoreSync == Init /\ [][NextStoreSync]_vars

\* clients are created and deleted, and the Vault page asks for the status
NextStatus ==
    \/ NextCreate
    \/ GetSyncStatus
    \/ StatusRead
    \/ StatusReadError

SpecStatus == Init /\ [][NextStatus]_vars

\* a client is created, full syncs run, the status is asked for and the page
\* is reloaded
NextStatusSync ==
    \/ Create("clients", [id |-> "k1", cnic |-> "c1"])
    \/ IdbComplete
    \/ Online
    \/ Offline
    \/ \E i \in DOMAIN passes : RemoteAccept(i)
    \/ PerformFullSync
    \/ \E m \in metaCalls : MetaAccept(m)
    \/ \E m \in metaCalls : MetaReject(m)
    \/ GetSyncStatus
    \/ StatusRead
    \/ StatusReadError
    \/ Restart

SpecStatusSync == Init /\ [][NextStatusSync]_vars

\* clients are created, the drain triggers fire and full syncs run, without
\* a reload of the page
NextManualSync ==
    \/ \E rec \in {r \in Records("clients") : r.cnic = "c1"} : Create("clients", rec)
    \/ IdbComplete
    \/ Online
    \/ Offline
    \/ Timer
    \/ \E i \in DOMAIN passes : RemoteAccept(i)
    \/ \E i \in DOMAIN passes : RemoteReject(i)
    \/ PerformFullSync
    \/ \E m \in metaCalls : MetaAccept(m)
    \/ \E m \in metaCalls : MetaReject(m)

SpecManualSync == Init /\ [][NextManualSync]_vars

\* a client is created, full syncs run and the page is reloaded
NextIdentity ==
    \/ Create("clients", [id |-> "k1", cnic |-> "c1"])
    \/ IdbComplete
    \/ Online
    \/ Offline
    \/ \E i \in DOMAIN passes : RemoteAccept(i)
    \/ \E i \in DOMAIN passes : RemoteReject(i)
    \/ PerformFullSync
    \/ \E m \in metaCalls : MetaAccept(m)
    \/ Restart

SpecIdentity == Init /\ [][NextIdentity]_vars

\* clients are created here and updated on another device while pages set up
\* and remove the listener of the clients collection
NextListeners ==
    \/ \E rec \in Records("clients") : Create("clients", rec)
    \/ IdbComplete
    \/ Online
    \/ Offline
    \/ \E i \in DOMAIN passes : RemoteAccept(i)
    \/ \E rec \in PeerRecords : PeerUpdate(rec)
    \/ SetupRealtimeListener("clients")
    \/ RemoveRealtimeListener("clients")
    \/ Cleanup
    \/ \E i \in DOMAIN subs : ListenerFires(i)

SpecListeners == Init /\ [][NextListeners]_vars

\* clients are created while a page reads the clients collection once and
\* listens to it, and reads and listeners fail
NextReads ==
    \/ \E rec \in Records("clients") : Create("clients", rec)
    \/ IdbComplete
    \/ Online
    \/ Offline
    \/ \E i \in DOMAIN passes : RemoteAccept(i)
    \/ GetStoreFromFirebase("clients")
    \/ GetResolves
    \/ GetRejects
    \/ SetupRealtimeListener("clients")
    \/ \E i \in DOMAIN subs : ListenerFires(i)
    \/ \E i \in DOMAIN subs : ListenerCancelled(i)

SpecReads == Init /\ [][NextReads]_vars

\* clients are created, deleted and updated, also with ids that no create
\* has returned
NextAnyId ==
    \/ \E rec \in Records("clients") : Create("clients", rec)
    \/ \E rec \in Records("clients") : updateClient("clients", rec)
    \/ \E id \in RecordIds("clients") : deleteClient("clients", id)
    \/ IdbComplete
    \/ \E i \in DOMAIN passes : RemoteAccept(i)

SpecAnyId == Init /\ [][NextAnyId]_vars

\* clients are created, and deleted by any id, online and offline
NextDelete ==
    \/ \E id \in RecordIds("clients") : Create("clients", [id |-> id, cnic |-> "c1"])
    \/ \E id \in RecordIds("clients") : deleteClient("clients", id)
    \/ IdbComplete
    \/ Online
    \/ Offline
    \/ \E i \in DOMAIN passes : RemoteAccept(i)

SpecDelete == Init /\ [][NextDelete]_vars

\* clients, employees and notifications are created and the data is exported
NextExport ==
    \/ \E st \in {"clients", "employees"} : \E rec \in Records(st) : Create(st, rec)
    \/ \E rec \in Records("notifications") : CreateNotification(rec)
    \/ IdbComplete
    \/ ExportData

SpecExport == Init /\ [][NextExport]_vars

\* a client and an employee are created, as createClient and createEmployee
\* store them with the createdAt they set, and a backup is made and restored
NextBackup ==
    \/ Create("clients", [id |-> "k1", cnic |-> "c1", createdAt |-> DateOf(0)])
    \/ Create("employees", [id |-> "e1", employeeId |-> "E1", createdAt |-> DateOf(0)])
    \/ Online
    \/ Offline
    \/ IdbComplete
    \/ ExportData
    \/ ImportExported

SpecBackup == Init /\ [][NextBackup]_vars

\* AuthService.init runs at the start of the application, and again, with the
\* sync events
NextAuth ==
    \/ AuthInit
    \/ \E connected \in BOOLEAN : AuthConnection(connected)
    \/ \E ok \in BOOLEAN : AuthUsersRead(ok)
    \/ IdbComplete
    \/ Online
    \/ Offline
    \/ Timer
    \/ \E i \in DOMAIN passes : RemoteAccept(i)
    \/ \E i \in DOMAIN passes : RemoteReject(i)

SpecAuth == Init /\ [][NextAuth]_vars

\* a record with date fields is written to the remote store and read back
NextRoundTrip ==
    \/ \E rec \in DatedRecords : TripMade(rec)
    \/ \E asJson \in BOOLEAN : TripStored(asJson)
    \/ TripRead

SpecRoundTrip == Init /\ [][NextRoundTrip]_vars

\* clients are created and updated, a backup is imported or the collections
\* are resynced from the remote store
NextUnique ==
    \/ \E rec \in Records("clients") : Create("clients", rec)
    \/ \E rec \in Records("clients") : Update("clients", rec)
    \/ IdbComplete
    \/ \E i \in DOMAIN passes : RemoteAccept(i)
    \/ \E data \in Backups : ImportData(data)
    \/ SyncFromFirebase
    \/ StoresRead({})

SpecUnique == Init /\ [][NextUnique]_vars

\* the same under the scheduling of the browser: interval timers keep firing,
\* IndexedDB completes its requests, and a remote call does not stay in
\* flight for ever
FairSpec ==
    /\ Spec
    /\ WF_vars(Timer)
    /\ WF_vars(IdbComplete)
    /\ WF_vars(\E i \in DOMAIN passes : RemoteAccept(i) \/ RemoteReject(i))

\* ------------------------------------------------------------ properties

\* the SyncOperations created so far
Ops == OpsOf(calls)

\* the ids of the operations in a queue
QueueIds(queue) == {queue[i].id : i \in DOMAIN queue}

\* the remote calls issued in a step
Issued == {passes'[i] : i \in DOMAIN passes'} \ {passes[i] : i \in DOMAIN passes}

\* a remote call rejects in a step
Rejected == \E i \in DOMAIN passes : RemoteReject(i)

\* the queue is empty and every operation enqueued has been written remotely
Drained ==
    /\ syncQueue = <<>>
    /\ passes = <<>>
    /\ \A o \in Ops : o.id \in confirmed

\* the node holds every field of the record
HoldsFields(node, data) ==
    \A f \in DOMAIN data : f \in DOMAIN node /\ node[f] = data[f]

\* o1 and o2 are operations on the same record and o1 was enqueued first
SameRecordBefore(o1, o2) ==
    /\ o1.store = o2.store
    /\ o1.data.id = o2.data.id
    /\ o1.id < o2.id

\* C1: of two operations on the same record id, the remote store receives the
\* one enqueued first before the other, also when the first attempt of the
\* earlier one fails and it is retried: whenever the write of an operation is
\* confirmed, every earlier operation on its record has been confirmed.
C1_PerRecordFifo ==
    [][\A o2 \in Ops : o2.id \in confirmed' \ confirmed =>
          \A o1 \in Ops : SameRecordBefore(o1, o2) => o1.id \in confirmed]_vars

\* C1's case has happened and has left the record stale: both operations are
\* confirmed, nothing is pending, and the remote node holds the data of the
\* earlier one
C1_Witness ==
    /\ Drained
    /\ \E o1 \in Ops : \E o2 \in Ops :
          /\ SameRecordBefore(o1, o2)
          /\ o1.type = "create" /\ o2.type = "update"
          /\ o1.data # o2.data
          /\ HoldsFields(remote[<<o1.store, o1.data.id>>], o1.data)

\* C2: at most one remote write or delete of a queued operation is in flight
\* at any moment: drain passes never overlap.
C2_OneRemoteCallInFlight == Len(passes) <= 1

\* C3: a restart that reloads the queue from 'arkive-sync-queue' yields every
\* enqueued operation whose remote write has not been confirmed (and has not
\* reached the server unseen during the restart).
C3_RestartKeepsUnconfirmed ==
    [][(Restart /\ remote' = remote) =>
          \A o \in Ops : o.id \notin confirmed => o.id \in QueueIds(syncQueue')]_vars

\* the operation is unconfirmed and is neither queued, persisted nor in flight
Lost(o) ==
    /\ o.id \notin confirmed
    /\ o.id \notin QueueIds(syncQueue) \cup QueueIds(lsQueue.json)
    /\ \A i \in DOMAIN passes : o.id \notin QueueIds(passes[i].queue)

\* C3's case has happened: after a restart a created record is in no queue
\* and not on the server
C3_Witness ==
    \E c \in DOMAIN calls :
        /\ calls[c].state = "lost"
        /\ calls[c].kind = "create"
        /\ Lost(calls[c].op)
        /\ remote[<<calls[c].store, calls[c].id>>] = NoNode

\* C4: an operation leaves the sync queue only after its remote write or
\* delete is confirmed: an unconfirmed operation is in the queue, in memory or
\* as persisted.
C4_QueuedUntilConfirmed ==
    \A o \in Ops : o.id \notin confirmed =>
        o.id \in QueueIds(syncQueue) \cup QueueIds(lsQueue.json)

\* C5: the local write of a DatabaseService mutation has completed before a
\* remote write for it is attempted: the operation at the head of a running
\* pass belongs to a call whose local write succeeded.
C5_LocalWriteFirst ==
    \A i \in DOMAIN passes : \A c \in DOMAIN calls :
        (calls[c].via = "DatabaseService" /\ calls[c].op.id = Head(passes[i].queue).id)
            => calls[c].state = "ok"

\* C5's second half has happened: the remote write of a logDocumentAccess
\* call was confirmed and its local put was never issued
C5_Witness ==
    \E c \in DOMAIN calls :
        /\ calls[c].kind = "logAccess"
        /\ calls[c].state = "hung"
        /\ calls[c].op.id \in confirmed
        /\ calls[c].op.data \notin localDb["documents"]

\* a create, update or delete call made while isOnline was false
OfflineMutation(c) ==
    /\ ~calls[c].online
    /\ calls[c].kind \in {"create", "update", "delete"}

\* the record change of call c is in the local store
ChangePresent(c) ==
    IF calls[c].kind = "delete"
    THEN \A r \in localDb[calls[c].store] : r.id # calls[c].id
    ELSE calls[c].op # NoOp /\ calls[c].op.data \in localDb[calls[c].store]

\* C6: a create, update or delete made while isOnline is false raises no
\* error, the record change is in the local store when the call returns, and
\* the call has made the queue exactly one longer.
C6_OfflineMutationSucceeds ==
    [][\A c \in DOMAIN calls' : OfflineMutation(c)' =>
          /\ calls'[c].state # "error"
          /\ (calls'[c].state = "ok" /\ (c \in DOMAIN calls => calls[c].state = "pending"))
                => ChangePresent(c)'
          /\ c \notin DOMAIN calls => Len(syncQueue') = Len(syncQueue) + 1]_vars

\* the operation was made by a create of a client while isOnline was false
CreatedOffline(o) ==
    \E c \in DOMAIN calls :
        /\ calls[c].op.id = o.id
        /\ calls[c].kind = "create"
        /\ calls[c].store = "clients"
        /\ ~calls[c].online

\* offline, one client created, nothing else pending
C7Offline ==
    /\ ~isOnline
    /\ passes = <<>>
    /\ Len(syncQueue) = 1
    /\ CreatedOffline(syncQueue[1])

\* the pass the online event started for that client is awaiting the remote
C7Draining ==
    /\ isOnline
    /\ syncQueue = <<>>
    /\ Len(passes) = 1
    /\ Len(passes[1].queue) = 1
    /\ CreatedOffline(Head(passes[1].queue))

\* the node carries this device's id in the field deviceId
HasDeviceId(node) ==
    "deviceId" \in DOMAIN node /\ node.deviceId = deviceId

\* the node carries this device's id in the field syncedBy, and in deviceId
\* as well when the part_002 revision wrote it
HasSyncedBy(node) ==
    /\ "syncedBy" \in DOMAIN node /\ node.syncedBy = deviceId
    /\ build = Rev2 => HasDeviceId(node)

Stamped(node, field) ==
    IF field = "deviceId" THEN HasDeviceId(node) ELSE HasSyncedBy(node)

\* the online event starts the drain by itself, and when the remote accepts
\* the write the queue is empty and the node holds the record and the
\* device's id in the given field
C7Drains(field) ==
    /\ (C7Offline /\ isOnline') =>
          /\ syncQueue' = <<>>
          /\ Len(passes') = 1
          /\ Head(passes'[1].queue).id = syncQueue[1].id
    /\ (C7Draining /\ confirmed' # confirmed) =>
          LET o == Head(passes[1].queue)
              node == remote'[<<"clients", o.data.id>>]
          IN  /\ syncQueue' = <<>>
              /\ passes' = <<>>
              /\ lsQueue'.json = <<>>
              /\ HoldsFields(node, o.data)
              /\ Stamped(node, field)

C8_NoRemoteCallOffline == [][Issued # {} => isOnline']_vars

\* C9: an operation whose remote write failed is attempted again by every
\* later drain trigger while online, however many failures there have been:
\* after a failure, online, a drain trigger is not suppressed.
C9_RetriedOnEveryTrigger ==
    [][(Rejected /\ isOnline' /\ Len(syncQueue') > 0) => ~DrainSuppressed(Page')]_vars

\* C9's case has happened: online, an operation queued, and no drain trigger
\* attempts it
C9_Witness ==
    /\ isOnline
    /\ Len(syncQueue) > 0
    /\ passes = <<>>
    /\ retryAttempts >= maxRetries
    /\ processSyncQueue(Page, NoCont) = Page

\* C10: if from some point on the device stays online, no remote write fails
\* and no further mutation is made, the queue becomes empty with every
\* operation written to the remote store.
C10_EventuallyDrained ==
    (<>[]isOnline /\ <>[][~Rejected /\ calls' = calls]_vars) => []<>Drained

\* no create, update or delete was called since syncFromFirebase was, and
\* none was writing to IndexedDB when it was
ResyncUndisturbed == resync.made = Len(calls) /\ resync.quiet

\* C11: when the import transactions of a syncFromFirebase call have finished
\* (and nothing else was written locally meanwhile), every local collection
\* holds exactly the records of the remote collection as the call read it (as
\* it was at the call, if nothing was read)
C11_ResyncEqualsRemote ==
    [][(resync.phase # "stored" /\ resync'.phase = "stored" /\ ResyncUndisturbed)
          => \A st \in Stores : localDb'[st] = StoreRead(resync.remote, st)]_vars

\* a resync has finished although a remote collection held records
C11_Witness ==
    /\ resync.phase = "stored"
    /\ ResyncUndisturbed
    /\ \E st \in Stores : StoreRead(resync.remote, st) # {}

\* syncFromFirebase has ended: it rejected, or its last transaction finished
ResyncEnded == resync.phase \in {"failed", "stored"}

\* C12: after a syncFromFirebase call has ended, whether or not a step of it
\* failed, every local collection holds either exactly the records it held
\* before the call or exactly the records stored remotely
C12_ReplaceIsAtomic ==
    (ResyncEnded /\ ResyncUndisturbed)
        => \A st \in Stores : \/ localDb[st] = resync.local[st]
                              \/ localDb[st] = StoreRead(resync.remote, st)

\* a resync of a device that held clients has failed
C12_Witness ==
    /\ resync.phase = "failed"
    /\ ResyncUndisturbed
    /\ resync.local["clients"] # {}

\* the SyncOperation type a call of this kind is to enqueue
OpTypeOf(kind) == IF kind = "markRead" THEN "update" ELSE kind

\* the call has changed its collection: it resolved and, for
\* markNotificationAsRead, the notification is stored as read
Mutated(c) ==
    /\ calls[c].via = "DatabaseService"
    /\ calls[c].state = "ok"
    /\ \/ calls[c].kind \in {"create", "update", "delete"}
       \/ /\ calls[c].kind = "markRead"
          /\ \E n \in localDb["notifications"] : n.id = calls[c].id /\ n.read

\* C13: every create, update, delete or markNotificationAsRead that succeeded
\* has made a SyncOperation with the matching type, store name and record id
C13_EveryMutationEnqueues ==
    \A c \in DOMAIN calls :
        Mutated(c) => /\ calls[c].op # NoOp
                      /\ calls[c].op.type = OpTypeOf(calls[c].kind)
                      /\ calls[c].op.store = calls[c].store
                      /\ calls[c].op.data.id = calls[c].id

\* a notification was created and then marked as read
C13_Witness ==
    \E c \in DOMAIN calls : Mutated(c) /\ calls[c].kind = "markRead"

\* the fields syncToFirebase adds to a record
StampFields == {"lastModified", "syncedBy", "deviceId"}

\* the node is the payload of a write of `data` by device `dev` and holds
\* nothing else
ExactlyPayload(node, data, dev) ==
    /\ node # NoNode
    /\ HoldsFields(node, data)
    /\ node.syncedBy = dev
    /\ DOMAIN node \subseteq DOMAIN data \cup StampFields

\* C14: whenever the remote call of a write completes, of this device or of
\* the other one, the node at its path is exactly the payload of that write:
\* no field of the node that was there before is kept
C14_LastWriteReplacesNode ==
    [][\A q \in Paths :
          remote'[q] # remote[q] =>
             \/ /\ peer' # peer
                /\ ExactlyPayload(remote'[q], peer'[Len(peer')], OtherDevice)
             \/ /\ peer' = peer
                /\ \E o \in Ops : /\ confirmed' = confirmed \cup {o.id}
                                  /\ q = <<o.store, o.data.id>>
                                  /\ IF o.type = "delete"
                                     THEN remote'[q] = NoNode
                                     ELSE ExactlyPayload(remote'[q], o.data, deviceId)]_vars

\* both devices have delivered an update of the same client; the call of
\* this device completed last
C14_Witness ==
    \E o \in Ops :
        /\ o.type = "update"
        /\ o.id \in confirmed
        /\ \E i \in DOMAIN peer : peer[i].id = o.data.id
        /\ ExactlyPayload(remote[<<o.store, o.data.id>>], o.data, deviceId)

\* C15: when a syncStoreToFirebase call resolves, the remote node of every
\* record it was given holds the field values of that record
C15_StoreSyncWritesAll ==
    [][(storeSync.phase # "resolved" /\ storeSync'.phase = "resolved")
          => \A r \in storeSync'.data :
                 LET node == remote'[<<storeSync'.store, r.id>>]
                 IN  node # NoNode /\ HoldsFields(node, r)]_vars

\* a syncStoreToFirebase call given at least one record has resolved
C15_Witness ==
    /\ storeSync.phase = "resolved"
    /\ storeSync.data # {}

\* a getSyncStatus call returns in this step
StatusReturns ==
    /\ status'.phase = "returned"
    /\ status.phase # "returned" \/ status'.n # status.n

\* the operations made so far whose remote write has not been confirmed
Unconfirmed(conf) == {o \in Ops : o.id \notin conf}

\* C16: what getSyncStatus returns has queueLength equal to the number of
\* enqueued operations whose remote write is not confirmed, and isOnline
\* equal to the connectivity flag
C16_StatusCountsUnconfirmed ==
    [][StatusReturns =>
          /\ status'.queueLength = Cardinality(Unconfirmed(confirmed'))
          /\ status'.isOnline = isOnline']_vars

\* a status was returned while an operation was not confirmed
C16_Witness ==
    /\ status.phase = "returned"
    /\ Unconfirmed(confirmed) # {}

\* C17 as stated: once a full sync has stored its metadata, every
\* getSyncStatus call returns the lastSync of that metadata
C17_StatusHasLastFullSync ==
    [][(StatusReturns /\ remoteMeta' # NoNode)
          => status'.lastSync = NewDate(remoteMeta'.lastSync)]_vars

\* C17: a getSyncStatus call whose read of sync_metadata/{deviceId} succeeds
\* returns the lastSync stored there by the latest full sync of this device,
\* also after a reload; a call made offline, or whose read fails, returns null
C17_StatusHasLastFullSyncIfRead ==
    [][StatusReturns
          => status'.lastSync = IF status'.read = "ok" /\ remoteMeta' # NoNode
                                THEN NewDate(remoteMeta'.lastSync)
                                ELSE Null]_vars

\* a full sync ran, then a client was created, then the page was reloaded
\* with that call pending, and a status read since holds the time of the
\* full sync
C17_Witness ==
    /\ status.phase = "returned"
    /\ status.read = "ok"
    /\ status.lastSync = DateOf(0)
    /\ \E c \in DOMAIN calls : calls[c].state = "lost" /\ calls[c].op # NoOp

\* the operations this.syncQueue holds and those a running pass holds
QueuedOps ==
    {syncQueue[i] : i \in DOMAIN syncQueue}
       \cup UNION {{passes[i].queue[j] : j \in DOMAIN passes[i].queue} : i \in DOMAIN passes}

\* C18: over all operations and reloads the device id is the value it had at
\* the start, in memory and in localStorage; every queued SyncOperation, every
\* record node written to the remote store and the metadata node of a full
\* sync carry it
C18_DeviceIdConstant ==
    /\ deviceId = ThisDevice
    /\ lsDeviceId = ThisDevice
    /\ \A o \in QueuedOps : o.deviceId = ThisDevice
    /\ \A q \in Paths : remote[q] # NoNode => remote[q].syncedBy = ThisDevice
    /\ remoteMeta # NoNode => remoteMeta.deviceId = ThisDevice

\* after a reload with a call pending, an operation read back from
\* localStorage is queued, a record is on the server and a full sync has
\* stored its metadata
C18_Witness ==
    /\ \E c \in DOMAIN calls : calls[c].state = "lost"
    /\ \E i \in DOMAIN syncQueue : syncQueue[i].timestamp[1] = "iso"
    /\ \E q \in Paths : remote[q] # NoNode
    /\ remoteMeta # NoNode

\* C19: a setupRealtimeListener call that has not been followed by a removal
\* has a listener attached, so that every change of the remote collection
\* reaches its callback; and whenever a callback is invoked it gets the full
\* current contents of the collection
C19_ListenerDeliversChanges ==
    [][\A i \in DOMAIN subs' :
          /\ ~subs'[i].removed => subs'[i].attached
          /\ (i \in DOMAIN subs /\ subs'[i].last # subs[i].last)
                => /\ subs'[i].last.invoked
                   /\ subs'[i].last.data = StoreRead(remote', subs'[i].store)]_vars

\* a listener that was set up and not removed has been given a collection
\* that holds a record
C19_Witness ==
    \E i \in DOMAIN subs :
        /\ ~subs[i].removed
        /\ subs[i].last.invoked
        /\ subs[i].last.data # {}

\* C20: once removeRealtimeListener(store) or cleanup() has returned, no
\* callback registered for the store before is invoked again
C20_NoCallbackAfterRemoval ==
    [][\A i \in DOMAIN subs :
          (i \in DOMAIN subs' /\ subs'[i].last # subs[i].last) => ~subs[i].removed]_vars

\* two listeners were set up for the store and then removed
C20_Witness ==
    /\ Len(subs) = 2
    /\ \A i \in DOMAIN subs : subs[i].removed /\ subs[i].last # NoSnapshot

\* a getStoreFromFirebase call has ended without having read the collection
ReadFailed == fetch.phase \in {"returned", "thrown"} /\ fetch.failed

\* C21: a getStoreFromFirebase call that fails (offline, unauthorised, or a
\* rejected get) returns an empty sequence and does not throw, and the
\* callback of a subscription that fails is invoked with an empty snapshot
C21_FailuresDegradeToEmpty ==
    /\ ReadFailed => fetch.phase = "returned" /\ fetch.result = {}
    /\ \A i \in DOMAIN subs : subs[i].failed => subs[i].last = EmptySnapshot

\* a read has failed while the remote collection held a record, and a
\* listener that had delivered a record has been cancelled
C21_Witness ==
    /\ ReadFailed
    /\ StoreRead(remote, fetch.store) # {}
    /\ \E i \in DOMAIN subs : subs[i].failed /\ subs[i].last # NoSnapshot

\* the collection of call c holds no record with the id the call names
IdAbsent(c) == \A r \in localDb[calls[c].store] : r.id # calls[c].id

\* the promise of call c settles in this step
Settles(c) == calls[c].state = "pending" /\ calls'[c].state # "pending"

\* C22: an update whose id is not in its collection when its write is
\* carried out fails, and the collection is left as it was
C22_UpdateOfAbsentIdFails ==
    [][\A c \in DOMAIN calls :
          (calls[c].kind = "update" /\ Settles(c) /\ IdAbsent(c))
             => /\ calls'[c].state = "error"
                /\ localDb'[calls[c].store] = localDb[calls[c].store]]_vars

\* an update has ended for an id that no create was called for
C22_Witness ==
    \E c \in DOMAIN calls :
        /\ calls[c].kind = "update"
        /\ calls[c].state \in {"ok", "error"}
        /\ \A d \in DOMAIN calls : calls[d].kind = "create" => calls[d].id # calls[c].id

\* the number of operations in this.syncQueue and in the running passes
RECURSIVE InPasses(_)
InPasses(n) == IF n = 0 THEN 0 ELSE Len(passes[n].queue) + InPasses(n - 1)

TotalQueued == Len(syncQueue) + InPasses(Len(passes))

\* the delete operation of a call, with no other field than the id
IsDeleteOf(o, call) ==
    /\ o # NoOp
    /\ o.type = "delete"
    /\ o.store = call.store
    /\ o.data = [id |-> call.id]

\* C23: a delete never raises, whether or not the id is in the collection;
\* when it completes the collection is what it was without the records of
\* that id (so unchanged for an absent id, as after a second delete); the
\* call makes exactly one delete operation and the queue one longer; and
\* when its remote call resolves the node is absent and the operation is
\* not queued again
C23_DeleteIsIdempotent ==
    [][/\ \A c \in DOMAIN calls' : calls'[c].kind = "delete" =>
             /\ calls'[c].state # "error"
             /\ c \notin DOMAIN calls =>
                   /\ IsDeleteOf(calls'[c].op, calls'[c])
                   /\ TotalQueued' = TotalQueued + 1
             /\ (c \in DOMAIN calls /\ Settles(c)) =>
                   localDb'[calls[c].store] =
                      {r \in localDb[calls[c].store] : r.id # calls[c].id}
       /\ \A o \in Ops : (o.type = "delete" /\ o.id \in confirmed' \ confirmed) =>
             /\ remote'[<<o.store, o.data.id>>] = NoNode
             /\ o.id \notin QueueIds(syncQueue')]_vars

\* the same id was deleted twice, it was in no collection, local or remote,
\* and both deletes have been delivered
C23_Witness ==
    /\ Len(calls) = 2
    /\ \A c \in DOMAIN calls :
          /\ calls[c].kind = "delete"
          /\ calls[c].id = "k1"
          /\ calls[c].state = "ok"
          /\ calls[c].op.id \in confirmed
    /\ localDb["clients"] = {}

\* no two records of the collection share a key, and no two clients a cnic
UniqueIn(db) ==
    /\ \A st \in LocalStores : \A a \in db[st] : \A b \in db[st] : a.id = b.id => a = b
    /\ \A a \in db["clients"] : \A b \in db["clients"] : a.cnic = b.cnic => a = b

\* the add of create call c is the oldest IndexedDB request and its record
\* has the cnic of a client in the collection
WouldBreak(c) ==
    /\ idbPending # <<>>
    /\ Head(idbPending).req = "add"
    /\ Head(idbPending).call = c
    /\ \E r \in localDb["clients"] : r.cnic = Head(idbPending).rec.cnic

\* C24: after every create, update, import and resync step no two local
\* clients share a cnic (or an id), and a create whose record has the cnic of
\* a stored client fails and stores nothing
C24_UniqueIndexesHold ==
    [][/\ UniqueIn(localDb')
       /\ \A c \in DOMAIN calls :
             (calls[c].kind = "create" /\ calls[c].store = "clients"
                /\ Settles(c) /\ WouldBreak(c))
                => calls'[c].state = "error" /\ localDb' = localDb]_vars

\* a create has failed on the cnic of a stored client, and an import that
\* held that cnic twice has finished
C24_Witness ==
    /\ \E c \in DOMAIN calls : calls[c].kind = "create" /\ calls[c].state = "error"
    /\ resync.phase = "stored"
    /\ \E a \in resync.read["clients"] : \E b \in resync.read["clients"] :
          a.id # b.id /\ a.cnic = b.cnic

\* the record has no value for the field
Absent(r, f) == f \notin DOMAIN r \/ r[f] = Undefined

\* C25: a record written to the remote store and read back with
\* getStoreFromFirebase has, for every date field, a Date equal to the
\* original, and no value for a date field the original did not have
C25_DatesRoundTrip ==
    trip.phase = "read" =>
        \A f \in DateFields :
            IF f \in DOMAIN trip.rec
            THEN ~Absent(trip.back, f) /\ trip.back[f] = trip.rec[f]
            ELSE Absent(trip.back, f)

\* a record with a check-in time and no creation time has been read back
C25_Witness ==
    /\ trip.phase = "read"
    /\ "checkIn" \in DOMAIN trip.rec
    /\ "createdAt" \notin DOMAIN trip.rec

\* the SyncOperation with this id as addToSyncQueue made it
OpWithId(id) == CHOOSE o \in Ops : o.id = id

\* the queue holds, in this order, the operations with these ids as they
\* were made
HoldsAsMade(queue, ids) ==
    /\ Len(queue) = Len(ids)
    /\ \A i \in DOMAIN queue : queue[i] = OpWithId(ids[i])

\* the ids of the operations of a queue, in its order
IdsOf(queue) == [i \in DOMAIN queue |-> queue[i].id]

\* C26: the queue a restart loads holds the operations that were saved, in
\* the same order, each with the id, type, store, data, deviceId and
\* timestamp it was made with
C26_QueueRoundTrips ==
    [][(Restart /\ lsQueue.has) => HoldsAsMade(syncQueue', IdsOf(lsQueue.json))]_vars

\* a restart has loaded a queue that holds an operation
C26_Witness ==
    /\ syncQueue # <<>>
    /\ syncQueue = lsQueue.json
    /\ \E i \in DOMAIN syncQueue : syncQueue[i].timestamp = toISOString(DateOf(syncQueue[i].id))

\* C27: while the queue is empty or the device is offline, a call of
\* processSyncQueue issues no remote call and leaves the queue in memory and
\* the persisted queue as they are (and with them everything else)
C27_DrainIsNoOp ==
    (~isOnline \/ Len(syncQueue) = 0)
        => LET s == processSyncQueue(Page, NoCont)
           IN  /\ s.passes = passes
               /\ s.syncQueue = syncQueue
               /\ s.lsQueue = lsQueue
               /\ s = Page

\* offline with an operation queued and a record on the server
C27_Witness ==
    /\ ~isOnline
    /\ syncQueue # <<>>
    /\ passes = <<>>
    /\ \E q \in Paths : remote[q] # NoNode

\* C28: the document exportData produces holds every local collection with
\* the records it held when it was read, and exportDate, version, appName
\* and the device id
C28_ExportHoldsEverything ==
    exported.phase = "done" =>
        /\ \A st \in LocalStores :
              st \in DOMAIN exported.doc /\ exported.doc[st] = exported.local[st]
        /\ {"exportDate", "version", "appName", "deviceId"} \subseteq DOMAIN exported.doc
        /\ exported.doc.deviceId = lsDeviceId

\* an export was made of a device that held a client and an employee
C28_Witness ==
    /\ exported.phase = "done"
    /\ exported.local["clients"] # {}
    /\ exported.local["employees"] # {}

\* the queue is empty, no processSyncQueue call is running and no local
\* write is waiting for IndexedDB
QueueIdle == syncQueue = <<>> /\ passes = <<>> /\ idbPending = <<>>

\* a delete of this id has completed and the collection holds no such record
DeletedLocally(store, id) ==
    /\ \A r \in localDb[store] : r.id # id
    /\ \E c \in DOMAIN calls :
          /\ calls[c].kind = "delete" /\ calls[c].state = "ok"
          /\ calls[c].store = store /\ calls[c].id = id

\* C29: whenever the queue is empty and no drain pass is running (and every
\* local write has completed), every
\* record of a synced collection that is in the local store is in the remote
\* store with the same field values, and every record deleted locally is
\* absent from the remote store
C29_IdleMeansMirrored ==
    QueueIdle =>
        \A q \in Paths :
            /\ \A r \in localDb[q[1]] :
                  r.id = q[2] => remote[q] # NoNode /\ HoldsFields(remote[q], r)
            /\ DeletedLocally(q[1], q[2]) => remote[q] = NoNode

\* the queue is idle, every operation was delivered, and a collection holds a
\* record
C29_Witness ==
    /\ QueueIdle
    /\ Ops # {}
    /\ \A o \in Ops : o.id \in confirmed
    /\ \E st \in Stores : localDb[st] # {}

\* the local write of create call c has failed
CreateFailed(c) ==
    /\ calls[c].via = "DatabaseService"
    /\ calls[c].kind = "create"
    /\ calls[c].state = "error"

\* C30: a create whose local write failed has enqueued no SyncOperation, so
\* that none of it is queued, in flight or written to the remote store
C30_FailedCreateEnqueuesNothing ==
    \A c \in DOMAIN calls :
        CreateFailed(c) =>
            /\ calls[c].op = NoOp
            /\ \A o \in QueuedOps : o.data.id # calls[c].id
            /\ remote[<<calls[c].store, calls[c].id>>] = NoNode

\* a create has failed locally, its operation was delivered, and the remote
\* store holds a record the local collection does not
C30_Witness ==
    \E c \in DOMAIN calls :
        /\ CreateFailed(c)
        /\ calls[c].op.id \in confirmed
        /\ remote[<<calls[c].store, calls[c].id>>] # NoNode
        /\ \A r \in localDb[calls[c].store] : r.id # calls[c].id


\* the operations whose remote call is issued in a step
Sent == {Head(p.queue) : p \in Issued}

\* C31: an operation whose remote write has been confirmed is never sent to
\* the remote store again, also not after a reload of the page during or after
\* the drain pass that delivered it.
C31_ConfirmedNeverResent == [][\A o \in Sent : o.id \notin confirmed]_vars

\* C31's case has happened: an operation confirmed to the page is in flight
\* to the remote store once more
C31_Witness ==
    \E i \in DOMAIN passes : Head(passes[i].queue).id \in confirmed


\* the number of positions of seq that hold the operation with this id
RECURSIVE Occurrences(_, _)
Occurrences(seq, id) ==
    IF seq = <<>> THEN 0
    ELSE (IF Head(seq).id = id THEN 1 ELSE 0) + Occurrences(Tail(seq), id)

\* the number of places of the page that hold the operation: positions of the
\* in-memory queue and of the batches of the passes in progress
RECURSIVE InBatches(_, _)
InBatches(ps, id) ==
    IF ps = <<>> THEN 0
    ELSE Occurrences(Head(ps).queue, id) + InBatches(Tail(ps), id)

Places(o) ==
    Occurrences(syncQueue, o.id) + InBatches(passes, o.id)
        + (IF o.id \in confirmed THEN 1 ELSE 0)

\* C32: in a run without restart every operation ever enqueued is in exactly
\* one place: once in the in-memory queue, or in the batch of one drain pass
\* in progress, or among the operations the remote store confirmed.
C32_EachOperationInOnePlace == \A o \in Ops : Places(o) = 1

\* C32's case has happened: a pass is in progress with one operation, another
\* operation was enqueued meanwhile and has failed once, and a third place,
\* the confirmed set, holds nothing yet
C32_Witness ==
    /\ Len(passes) = 1
    /\ Len(syncQueue) = 1
    /\ retryAttempts > 0
    /\ Cardinality(Ops) = 2
    /\ confirmed = {}


\* C33: when performFullSync resolves, its write of sync_metadata/{deviceId}
\* accepted, the sync queue is empty and every operation that was queued when
\* it was called has been confirmed by the remote store.
C33_FullSyncMeansDelivered ==
    [][\A m \in metaCalls :
          MetaAccept(m) => (syncQueue' = <<>> /\ m.queued \subseteq confirmed')]_vars

\* C33's case has happened: a full sync called with an operation queued has
\* stored its metadata
C33_Witness ==
    /\ remoteMeta # NoNode
    /\ metaCalls = {}
    /\ \E o \in Ops : o.id \notin confirmed /\ o.id \in QueueIds(syncQueue)
    /\ isOnline


\* the ids of the records of a collection, locally and remotely
LocalIds(st) == {x.id : x \in localDb[st]}
RemoteIds(st) == {x.id : x \in NodesOf(remote, st)}

\* a syncFromFirebase call has completed, it has read every remote collection
\* and stored what it read, no mutation was made since it was called, and the
\* queue has drained: every operation is
\* confirmed and nothing is queued, in flight or being written locally
ResyncedAndDrained ==
    /\ resync.phase = "stored"
    /\ ResyncUndisturbed
    /\ \A st \in Stores : resync.read[st] = StoreRead(resync.remote, st)
    /\ \A st \in Stores : localDb[st] = resync.read[st]
    /\ QueueIdle
    /\ \A o \in Ops : o.id \in confirmed

\* C34: after syncFromFirebase has completed and the sync queue has drained
\* with no new mutation, every local collection holds the records of the
\* remote collection, also when an operation was pending at the resync call.
C34_ResyncThenDrainAgree ==
    ResyncedAndDrained => \A st \in Stores : LocalIds(st) = RemoteIds(st)

\* C34's case has happened: the resync has completed and the operation that
\* was pending when it was called has been confirmed since
C34_Witness ==
    /\ ResyncedAndDrained
    /\ Ops # {}
    /\ \E o \in Ops : o.type = "create" /\ o.data.id \notin LocalIds(o.store)


\* the remote paths of the collection a syncStoreToFirebase call was given
\* whose id is not among the records it was given
PathsNotInData ==
    {q \in Paths : q[1] = storeSync.store
                      /\ q[2] \notin {x.id : x \in storeSync.data}}

\* C35: syncStoreToFirebase(store, data) changes only the remote nodes
\* {store}/{id} of the records in data: when its remote call is accepted, a
\* remote record of the collection whose id is not in data stays as it was.
C35_StoreSyncKeepsOtherRecords ==
    [][StoreSyncAccept => \A q \in PathsNotInData : remote'[q] = remote[q]]_vars

\* C35's case has happened: a syncStoreToFirebase call has resolved, and a
\* record whose creation the remote store had confirmed, and which was not in
\* data, is not in the remote collection
C35_Witness ==
    /\ storeSync.phase = "resolved"
    /\ \E o \in Ops :
          /\ o.type = "create" /\ o.id \in confirmed
          /\ <<o.store, o.data.id>> \in PathsNotInData
          /\ remote[<<o.store, o.data.id>>] = NoNode
          /\ ~\E d \in Ops : d.type = "delete" /\ d.data.id = o.data.id


\* a backup was made and then restored, the restore has finished, and no
\* mutation was made or was still being written from the export on
BackupRestored ==
    /\ exported.phase = "done"
    /\ resync.phase = "stored"
    /\ ResyncUndisturbed
    /\ resync.local = exported.local

\* C36: importData(exportData()) leaves every local collection with exactly
\* the records it had before, employees included.
C36_ExportImportIsIdentity ==
    BackupRestored => \A st \in LocalStores : localDb[st] = exported.local[st]

\* C36's case has happened: a device holding a client and an employee has
\* made a backup and restored it
C36_Witness ==
    /\ BackupRestored
    /\ exported.local["clients"] # {}
    /\ exported.local["employees"] # {}


\* the ids of the users the latest AuthService.init found remotely
FoundIds == {x.id : x \in auth.found}

\* AuthService.init has ended after it found users in the remote collection
InitFoundUsers == auth.phase = "done" /\ auth.found # {}

\* C37: when AuthService.init found a non-empty remote users collection, the
\* local users collection afterwards holds exactly the remote users, with
\* their ids, and the remote users collection has no more records than it
\* had, however often init is repeated.
C37_InitMirrorsRemoteUsers ==
    InitFoundUsers =>
        /\ LocalIds("users") = FoundIds
        /\ RemoteIds("users") = FoundIds

\* C37's case has happened: an init that found remote users has ended, the
\* queue has drained, and the remote users collection has grown
C37_Witness ==
    /\ InitFoundUsers
    /\ QueueIdle
    /\ Cardinality(RemoteIds("users")) > Cardinality(FoundIds)


\* C38: performFullSync called while isOnline is false raises 'Cannot sync
\* while offline' and leaves the in-memory queue, the persisted queue, the
\* remote store and sync_metadata unchanged: in every offline state the call
\* throws that error and returns the page as it found it, and the step of an
\* offline call writes nothing remotely.
C38_OfflineFullSyncRaises ==
    /\ [](~isOnline =>
            /\ performFullSync(Page).error = "Cannot sync while offline"
            /\ performFullSync(Page).page = Page)
    /\ [][(PerformFullSync /\ ~isOnline) =>
            /\ syncQueue' = syncQueue /\ lsQueue' = lsQueue
            /\ remote' = remote /\ remoteMeta' = remoteMeta
            /\ metaCalls' = metaCalls]_vars

\* C38's case has happened: the device is offline with an operation in the
\* queue and in the persisted queue, after a full sync that stored metadata
\* and a record on the server
C38_Witness ==
    /\ ~isOnline
    /\ syncQueue # <<>>
    /\ lsQueue.json # <<>>
    /\ remoteMeta # NoNode
    /\ \E q \in Paths : remote[q] # NoNode

====
